---- MODULE Spec2Model ----
(***************************************************************************)
(* Run-execution and delivery pipeline of the answer-evaluation backend:   *)
(* run materialization and the execution worker (run_service.py,           *)
(* routes_runs.py, workers/tasks.py), the Redis token bucket               *)
(* (core/rate_limit.py) and the partner delivery worker (workers/tasks.py).*)
(* Three specifications share the module: Spec (runs), SpecDelivery        *)
(* (deliveries) and SpecRL (token bucket).                                 *)
(***************************************************************************)
EXTENDS Integers, Sequences, FiniteSets, Bags, TLC

VARIABLES
    runs,         \* Run rows: id -> [providers, prompt_version, status, cost_cents]
    run_items,    \* RunItem rows in creation order; a row's id is its index
    responses,    \* Response rows in creation order
    queue,        \* execute_run_item messages on the broker: a bag of [item, retries]
    wk,           \* execution workers: position in _execute_run_item_async and its session
    api,          \* HTTP requests being handled by start_run / resume_run
    calls,        \* how many Start / Resume requests, executions, tokens and adapter calls were made
    matlog,       \* history per run: materialize_run_items calls that returned, last result
    deliveries,   \* Delivery rows: id -> [status, attempts, last_error, response_body, webhook]
    dtasks,       \* deliver_to_partner messages: queued, or started by a worker
    dlog,         \* history per delivery: what its executions met and how the last one ended
    rlcfg,        \* the bucket's configuration [qps, burst]
    bucket,       \* the Redis hash of the bucket: [exists, tokens, last_update, expire_at]
    clock,        \* wall-clock time, in ticks
    rlw,          \* per worker: where it is in _try_acquire and the "now" it sampled
    win,          \* observer: a window opened at win.start and the successes since
    exports,      \* create_export requests: the Export row, the composed results, the outcome
    admission,    \* Create Run requests: the feature flags and the outcome of the last request
    invocation,   \* one adapter invocation: its inputs, the request body sent, the result
    questions,    \* the Question table and the outcome of the imports made so far
    calc          \* a utility function under check: its arguments and its results

rvars == <<runs, run_items, responses, queue, wk, api, calls, matlog>>

dvars == <<deliveries, dtasks, dlog>>

rlvars == <<rlcfg, bucket, clock, rlw, win>>

evars == <<exports, admission, invocation, questions, calc>>

vars == <<runs, run_items, responses, queue, wk, api, calls, matlog,
          deliveries, dtasks, dlog, rlcfg, bucket, clock, rlw, win,
          exports, admission, invocation, questions, calc>>

\* no export, admission, adapter call or import is part of the behaviour
EdgesOff ==
    /\ exports = <<>>
    /\ admission = <<>>
    /\ invocation = <<>>
    /\ questions = <<>>
    /\ calc = <<>>

\* the run pipeline before anything exists
RunsOff ==
    /\ runs = <<>>
    /\ run_items = <<>>
    /\ responses = <<>>
    /\ queue = EmptyBag
    /\ wk = <<>>
    /\ api = <<>>
    /\ calls = <<>>
    /\ matlog = <<>>

(***************************************************************************)
(* Delivery worker: deliver_to_partner / _deliver_to_partner_async         *)
(***************************************************************************)

\* settings.max_delivery_attempts
MaxDeliveryAttempts == 5

\* number of Delivery rows of the model
NumDeliveries == 1

Deliveries == 1..NumDeliveries

\* @celery_app.task(name="deliver_to_partner", bind=True, max_retries=settings.max_delivery_attempts)
DeliveryMaxRetries == MaxDeliveryAttempts

\* status codes the partner may answer with
StatusCodes == {200, 302, 400, 404, 500, 503}

\* what one execution of the task can meet after it has counted the attempt
DeliveryOutcomes ==
    [kind : {"http"}, code : StatusCodes]
        \cup [kind : {"timeout", "network", "ratelimit"}, code : {0}]

\* the if / elif / else over status_code
HttpClass(code) ==
    IF 200 <= code /\ code < 300 THEN "2xx"
    ELSE IF 400 <= code /\ code < 500 THEN "4xx"
    ELSE "other"

\* Celery's Task.retry as called by the task t: it sends the retry message
\* unless request.retries + 1 exceeds max_retries, and raises in both cases
\* (Retry when the message was sent, the given exc otherwise).
RetrySent(t, maxRetries) == t.retries + 1 <= maxRetries

RetryTask(t) == [delivery |-> t.delivery, retries |-> t.retries + 1, pc |-> "queued"]

\* "except Exception as e" around the whole attempt: Retry and every other
\* exception raised inside the try end here.
CatchAll(dl, cause) ==
    [dl EXCEPT !.status = "failed", !.last_error = <<"Unexpected error">> \o cause]

\* RetryOrFail with the attempt budget compared by <= : one retry too many
RetryOrFailOffByOne(dl, msg, sent) ==
    LET withErr == [dl EXCEPT !.last_error = msg]
    IN  IF withErr.attempts <= MaxDeliveryAttempts
        THEN [row |-> [withErr EXCEPT !.status = "failed",
                           !.last_error = <<"Unexpected error">> \o msg],
              retry |-> TRUE, exit |-> "return_failed"]
        ELSE [row |-> [withErr EXCEPT !.status = "failed"], retry |-> FALSE, exit |-> "return_failed"]

\* The 5xx / timeout / network branches: last_error is committed, then either
\* task.retry is raised (inside the try, so CatchAll gets it) or the delivery
\* is marked failed.
RetryOrFail(dl, msg, sent) ==
    LET withErr == [dl EXCEPT !.last_error = msg]
    IN  IF withErr.attempts < MaxDeliveryAttempts
        THEN [row |-> CatchAll(withErr, IF sent THEN <<"Retry">> \o msg ELSE msg),
              retry |-> TRUE, exit |-> "return_failed"]
        ELSE [row |-> [withErr EXCEPT !.status = "failed"], retry |-> FALSE, exit |-> "return_failed"]

\* ClientError with the 4xx answer treated as retriable
ClientErrorRetried(dl, code) ==
    [row |-> [dl EXCEPT !.last_error = <<"HTTP", code>>, !.response_body = <<"body", code>>],
     retry |-> TRUE, exit |-> "return_failed"]

\* The 4xx branch: failed, "HTTP <code>: <body>" in last_error, the body
\* stored, and the task returns without calling task.retry.
ClientError(dl, code) ==
    [row |-> [dl EXCEPT !.status = "failed", !.last_error = <<"HTTP", code>>,
                        !.response_body = <<"body", code>>],
     retry |-> FALSE, exit |-> "return_failed"]

\* Lines 254-438 for a delivery whose attempt has been counted: the row to
\* commit, whether task.retry was called, and how the task ends. sent tells
\* whether a call of task.retry sends the retry message (RetrySent).
DeliverBody(dl, out, sent) ==
    IF ~dl.webhook
    THEN [row |-> CatchAll(dl, <<"webhook_url not configured">>), retry |-> FALSE, exit |-> "return_failed"]
    ELSE IF out.kind = "ratelimit"
    THEN [row |-> CatchAll(dl, IF sent THEN <<"Retry", "Rate limit timeout">> ELSE <<"Rate limit timeout">>),
          retry |-> TRUE, exit |-> "return_failed"]
    ELSE IF out.kind = "http" /\ HttpClass(out.code) = "2xx"
    THEN [row |-> [dl EXCEPT !.status = "succeeded", !.response_body = <<"body", out.code>>],
          retry |-> FALSE, exit |-> "return_succeeded"]
    ELSE IF out.kind = "http" /\ HttpClass(out.code) = "4xx"
    THEN ClientError(dl, out.code)
    ELSE IF out.kind = "http"
    THEN RetryOrFail(dl, <<"HTTP", out.code>>, sent)
    ELSE IF out.kind = "timeout"
    THEN RetryOrFail(dl, <<"Timeout">>, sent)
    ELSE RetryOrFail(dl, <<"Network error">>, sent)

\* what the history keeps of one execution
Met(dl, out) ==
    IF ~dl.webhook THEN "unexpected"
    ELSE IF out.kind = "http" THEN HttpClass(out.code)
    ELSE out.kind

InitDelivery ==
    /\ deliveries \in [Deliveries ->
            [status : {"pending"}, attempts : {0}, last_error : {<<>>},
             response_body : {<<>>}, webhook : BOOLEAN]]
    /\ dtasks = {[delivery |-> d, retries |-> 0, pc |-> "queued"] : d \in Deliveries}
    /\ dlog = [d \in Deliveries |->
            [first2xx |-> 0, first4xx |-> 0, nonPartner |-> FALSE, met |-> "none",
             exit |-> "none", retried |-> FALSE, before |-> "none"]]
    /\ rlcfg = [qps |-> 1, burst |-> 1]
    /\ bucket = [exists |-> FALSE, tokens |-> 0, last_update |-> 0, expire_at |-> 0]
    /\ clock = 0
    /\ rlw = <<>>
    /\ win = [start |-> -1, count |-> 0]
    /\ RunsOff
    /\ EdgesOff

\* lines 233-245: load the delivery, count the attempt, commit
DeliverStart(t) ==
    /\ t \in dtasks
    /\ t.pc = "queued"
    /\ deliveries' = [deliveries EXCEPT ![t.delivery].attempts = @ + 1]
    /\ dtasks' = (dtasks \ {t}) \cup {[t EXCEPT !.pc = "started"]}
    /\ UNCHANGED dlog
    /\ UNCHANGED <<rvars, rlvars, evars>>

\* lines 254-438: the attempt itself, with the outcome it meets
DeliverFinish(t, out) ==
    /\ t \in dtasks
    /\ t.pc = "started"
    /\ LET dl == deliveries[t.delivery]
           res == DeliverBody(dl, out, RetrySent(t, DeliveryMaxRetries))
           sent == res.retry /\ RetrySent(t, DeliveryMaxRetries)
           m == Met(dl, out)
           lg == dlog[t.delivery]
       IN  /\ deliveries' = [deliveries EXCEPT ![t.delivery] = res.row]
           /\ dtasks' = (dtasks \ {t}) \cup (IF sent THEN {RetryTask(t)} ELSE {})
           /\ dlog' = [dlog EXCEPT ![t.delivery] =
                  [first2xx |-> IF lg.first2xx = 0 /\ m = "2xx" THEN dl.attempts ELSE lg.first2xx,
                   first4xx |-> IF lg.first4xx = 0 /\ m = "4xx" THEN dl.attempts ELSE lg.first4xx,
                   nonPartner |-> lg.nonPartner \/ m \in {"ratelimit", "unexpected"},
                   met |-> m,
                   exit |-> res.exit,
                   retried |-> sent,
                   before |-> dl.status]]
    /\ UNCHANGED <<rvars, rlvars, evars>>

NextDelivery ==
    \/ \E t \in dtasks : DeliverStart(t)
    \/ \E t \in dtasks : \E out \in DeliveryOutcomes : DeliverFinish(t, out)

\* no message of the delivery is queued or being executed, and it was attempted
DeliveryFinal(d) ==
    /\ deliveries[d].attempts > 0
    /\ \A t \in dtasks : t.delivery # d

FailedOnlyWhenTerminal ==
    \A d \in DOMAIN deliveries :
        (deliveries[d].webhook /\ deliveries[d].status = "failed")
            => \/ deliveries[d].attempts = MaxDeliveryAttempts
               \/ dlog[d].first4xx > 0

RetriableOutcomes == {"other", "timeout", "network"}

\* what last_error holds after an execution that met the outcome m
FailureMessage(m, row) ==
    CASE m = "timeout" -> row.last_error = <<"Timeout">>
      [] m = "network" -> row.last_error = <<"Network error">>
      [] OTHER -> Len(row.last_error) = 2 /\ row.last_error[1] = "HTTP"

TicksPerInterval == 2

\* redis.call('EXPIRE', key, 60): seconds
BucketTTLSeconds == 60

\* how many ticks the clock is followed before and after an idle period
ClockSlack == 5

NumRLWorkers == 2

RLWorkers == 1..NumRLWorkers

\* (qps, burst) pairs: the fallback of get_provider_rate_limits and two
\* other small buckets
RLConfigs ==
    { [qps |-> 1, burst |-> 1], [qps |-> 1, burst |-> 2], [qps |-> 2, burst |-> 3] }

refill_interval == TicksPerInterval

BucketTTL(cfg) == BucketTTLSeconds * cfg.qps * TicksPerInterval

MaxClock(cfg) == BucketTTL(cfg) + ClockSlack

Min(a, b) == IF a <= b THEN a ELSE b

\* HMGET with the "or burst" / "or now" defaults; an expired key is absent
BucketState(b, cfg, now, t) ==
    IF b.exists /\ t < b.expire_at
    THEN [tokens |-> b.tokens, last_update |-> b.last_update]
    ELSE [tokens |-> cfg.burst, last_update |-> now]

\* (the script without "math.min(burst, ...)")
TryAcquireScriptUncapped(b, cfg, now, requested, t) ==
    LET st == BucketState(b, cfg, now, t)
        elapsed == now - st.last_update
        refill == elapsed \div refill_interval
        tokens == st.tokens + refill
    IN  IF tokens >= requested
        THEN [ok |-> TRUE,
              bucket |-> [exists |-> TRUE, tokens |-> tokens - requested,
                          last_update |-> now, expire_at |-> t + BucketTTL(cfg)]]
        ELSE [ok |-> FALSE, bucket |-> b]

\* the Lua script of _try_acquire, run atomically at time t with the caller's now
TryAcquireScript(b, cfg, now, requested, t) ==
    LET st == BucketState(b, cfg, now, t)
        elapsed == now - st.last_update
        refill == elapsed \div refill_interval
        tokens == Min(cfg.burst, st.tokens + refill)
    IN  IF tokens >= requested
        THEN [ok |-> TRUE,
              bucket |-> [exists |-> TRUE, tokens |-> tokens - requested,
                          last_update |-> now, expire_at |-> t + BucketTTL(cfg)]]
        ELSE [ok |-> FALSE, bucket |-> b]

DeliveryOff ==
    /\ deliveries = <<>>
    /\ dtasks = {}
    /\ dlog = <<>>

InitRL ==
    /\ rlcfg \in RLConfigs
    /\ bucket = [exists |-> FALSE, tokens |-> 0, last_update |-> 0, expire_at |-> 0]
    /\ clock = 0
    /\ rlw = [w \in RLWorkers |-> [pc |-> "idle", now |-> 0]]
    /\ win = [start |-> -1, count |-> 0]
    /\ DeliveryOff
    /\ RunsOff
    /\ EdgesOff

\* now = time.time()
RLSample(w) ==
    /\ rlw[w].pc = "idle"
    /\ rlw' = [rlw EXCEPT ![w] = [pc |-> "sampled", now |-> clock]]
    /\ UNCHANGED <<rlcfg, bucket, clock, win>>
    /\ UNCHANGED <<rvars, dvars, evars>>

\* self.redis.eval(script, ...) with tokens = 1, as both callers pass it
RLEval(w) ==
    /\ rlw[w].pc = "sampled"
    /\ LET r == TryAcquireScript(bucket, rlcfg, rlw[w].now, 1, clock)
       IN  /\ bucket' = r.bucket
           /\ win' = IF r.ok /\ win.start >= 0 THEN [win EXCEPT !.count = @ + 1] ELSE win
    /\ rlw' = [rlw EXCEPT ![w] = [pc |-> "idle", now |-> 0]]
    /\ UNCHANGED <<rlcfg, clock>>
    /\ UNCHANGED <<rvars, dvars, evars>>

\* time passes by one tick
Tick ==
    /\ clock < MaxClock(rlcfg)
    /\ clock % BucketTTL(rlcfg) < ClockSlack
    /\ clock' = clock + 1
    /\ UNCHANGED <<rlcfg, bucket, rlw, win>>
    /\ UNCHANGED <<rvars, dvars, evars>>

\* nobody calls the limiter for the TTL of the key
IdlePeriod ==
    /\ clock + BucketTTL(rlcfg) <= MaxClock(rlcfg)
    /\ \A w \in RLWorkers : rlw[w].pc = "idle"
    /\ clock' = clock + BucketTTL(rlcfg)
    /\ UNCHANGED <<rlcfg, bucket, rlw, win>>
    /\ UNCHANGED <<rvars, dvars, evars>>

\* the observer starts counting successes from the present instant
OpenWindow ==
    /\ win.start = -1
    /\ win' = [start |-> clock, count |-> 0]
    /\ UNCHANGED <<rlcfg, bucket, clock, rlw>>
    /\ UNCHANGED <<rvars, dvars, evars>>

NextRL ==
    \/ \E w \in RLWorkers : RLSample(w)
    \/ \E w \in RLWorkers : RLEval(w)
    \/ Tick
    \/ IdlePeriod
    \/ OpenWindow

(***************************************************************************)
(* Runs: materialization, Start / Resume, execution worker, rollup         *)
(***************************************************************************)

NumRuns == 2

Runs == 1..NumRuns

NumQuestions == 1

\* the questions of the campaign all runs belong to
Questions == 1..NumQuestions

NumWorkers == 2

Workers == 1..NumWorkers

\* concurrent HTTP request handlers
NumApi == 2

Apis == 1..NumApi

\* how many Start Run / Resume Run requests are made in all
MaxRequests == 2

\* how many task executions the workers begin in all
MaxExecutions == 3

\* Question rows: text is a string of characters, metadata carries provider_overrides
QuestionRow(q) ==
    [id |-> q, persona_id |-> 1,
     text |-> IF q = 1 THEN <<"H", "i", " ", " ", "A">> ELSE <<"b", " ", "A">>,
     provider_overrides |-> <<>>]

\* provider specs a run may be admitted with
SpecMini == [name |-> "openai", model |-> "gpt-4o-mini"]

Spec4o == [name |-> "openai", model |-> "gpt-4o"]

ProviderLists == { <<SpecMini>>, <<SpecMini, Spec4o>> }

\* provider_registry._enabled_providers with the default feature flags
EnabledProviders == {"openai"}

\* Response.cost_cents values, in 1/10000 cent (Numeric(10, 4))
Costs == {12500}

\* Run.cost_cents is Numeric(12, 2): a stored value is rounded to 1/100 cent
StoreNumeric2(x) == ((x + 50) \div 100) * 100

\* str.lower() on the characters of the model
LowerChar(c) ==
    CASE c = "A" -> "a"
      [] c = "H" -> "h"
      [] OTHER -> c

IsSpace(c) == c \in {" ", "\t", "\n"}

\* " ".join(question_text.lower().split())
RECURSIVE NormalizeFrom(_, _, _)
NormalizeFrom(s, acc, gap) ==
    IF s = <<>> THEN acc
    ELSE IF IsSpace(Head(s)) THEN NormalizeFrom(Tail(s), acc, acc # <<>>)
    ELSE NormalizeFrom(Tail(s),
                       (IF gap THEN Append(acc, " ") ELSE acc) \o <<LowerChar(Head(s))>>,
                       FALSE)

NormalizeText(s) == NormalizeFrom(s, <<>>, FALSE)

\* {**a, **b}
MergeDicts(a, b) ==
    [k \in (DOMAIN a) \cup (DOMAIN b) |-> IF k \in DOMAIN b THEN b[k] ELSE a[k]]

(***************************************************************************)
(* utils/hashing.py.  A str is a sequence of pieces: each piece is a run   *)
(* of characters holding no vertical bar, or the vertical bar itself.      *)
(* A dict is the sequence of its items [k, v] in insertion order; a value  *)
(* is a str (t = "str", in s), a number (t = "num", its digits in s) or a  *)
(* dict (t = "dict", in d).                                                *)
(***************************************************************************)
HexDigestLength == 64

JsonStr(s) == [t |-> "str", s |-> s, d |-> <<>>]
JsonNum(s) == [t |-> "num", s |-> s, d |-> <<>>]
JsonDict(d) == [t |-> "dict", s |-> <<>>, d |-> d]

\* the keys of the settings dicts, in the order Python sorts them
KeyOrder == <<"max_tokens", "model", "name", "sampling", "temperature", "top_p">>

KeyRank(k) == CHOOSE i \in DOMAIN KeyOrder : KeyOrder[i] = k

\* the items of a dict in insertion order (no sort_keys)
ItemsAsInserted(d) == d

\* sort_keys=True: the items of a dict ordered by key
ItemsSortedByKey(d) ==
    [i \in DOMAIN d |->
        d[CHOOSE j \in DOMAIN d :
            Cardinality({m \in DOMAIN d : KeyRank(d[m].k) < KeyRank(d[j].k)}) = i - 1]]

\* sep.join(components)
RECURSIVE Join(_, _)
Join(components, sep) ==
    IF components = <<>> THEN <<>>
    ELSE IF Len(components) = 1 THEN components[1]
    ELSE components[1] \o sep \o Join(Tail(components), sep)

\* json.dumps(obj, sort_keys=True) for a dict of the values above
RECURSIVE json_dumps(_)
json_dumps(d) ==
    LET items == ItemsSortedByKey(d)
        Value(v) == IF v.t = "str" THEN <<"\"">> \o v.s \o <<"\"">>
                    ELSE IF v.t = "num" THEN v.s
                    ELSE json_dumps(v.d)
        Item(i) == <<"\"", items[i].k, "\"", ": ">> \o Value(items[i].v)
    IN  <<"{">> \o Join([i \in DOMAIN items |-> Item(i)], <<", ">>) \o <<"}">>

\* hashlib.sha256(...).hexdigest(): 64 hex digits; SHA-256 is taken to be
\* injective, so the digest is identified by the bytes hashed
sha256_hexdigest(bytes) == [length |-> HexDigestLength, of |-> bytes]

\* lines 30-48: the string that is hashed
hash_input(provider, model, prompt_version, question_id, persona_id, question_text, provider_settings) ==
    Join(<<provider, model, prompt_version, question_id, persona_id,
           NormalizeText(question_text), json_dumps(provider_settings)>>, <<"|">>)

compute_idempotency_hash(provider, model, prompt_version, question_id, persona_id, question_text, provider_settings) ==
    sha256_hexdigest(hash_input(provider, model, prompt_version, question_id, persona_id, question_text, provider_settings))

\* the items of a settings record as a dict of str values
RECURSIVE DictItemsFrom(_, _)
DictItemsFrom(rec, i) ==
    IF i > Len(KeyOrder) THEN <<>>
    ELSE (IF KeyOrder[i] \in DOMAIN rec
          THEN <<[k |-> KeyOrder[i], v |-> JsonStr(<<rec[KeyOrder[i]]>>)]>> ELSE <<>>)
         \o DictItemsFrom(rec, i + 1)

DictItems(rec) == DictItemsFrom(rec, 1)

\* the (question, provider spec) pairs of a run in the order of the two loops
RECURSIVE UnitsFrom(_, _, _)
UnitsFrom(run, q, k) ==
    IF q > NumQuestions THEN <<>>
    ELSE IF k > Len(run.providers) THEN UnitsFrom(run, q + 1, 1)
    ELSE <<[question |-> q, spec |-> k]>> \o UnitsFrom(run, q, k + 1)

Units(run) == UnitsFrom(run, 1, 1)

UnitKey(run, u) ==
    LET question == QuestionRow(u.question)
        provider_config == run.providers[u.spec]
        merged_settings == MergeDicts(provider_config, question.provider_overrides)
    IN  compute_idempotency_hash(<<provider_config.name>>, <<provider_config.model>>,
                                 <<run.prompt_version>>, <<ToString(question.id)>>,
                                 <<ToString(question.persona_id)>>,
                                 question.text, DictItems(merged_settings))

\* the mutant of KeyExists: duplicates are looked for in the session only
KeyExistsSessionOnly(key, rows, added) ==
    \E i \in 1..Len(added) : added[i].idempotency_key = key

\* "select(RunItem).where(RunItem.idempotency_key == idempotency_key)": the
\* committed rows plus the rows this session has added (autoflush)
KeyExists(key, rows, added) ==
    \/ \E i \in 1..Len(rows) : rows[i].idempotency_key = key
    \/ \E i \in 1..Len(added) : added[i].idempotency_key = key

\* the two loops of materialize_run_items up to the commit: the rows added
RECURSIVE ScanUnits(_, _, _, _, _)
ScanUnits(r, run, units, rows, added) ==
    IF units = <<>> THEN added
    ELSE LET u == Head(units)
             key == UnitKey(run, u)
         IN  IF KeyExists(key, rows, added)
             THEN ScanUnits(r, run, Tail(units), rows, added)
             ELSE ScanUnits(r, run, Tail(units), rows,
                     Append(added,
                        [run_id |-> r, question_id |-> u.question, idempotency_key |-> key,
                         status |-> "pending", attempt_count |-> 0, last_error |-> "none"]))

\* uq_run_items_idempotency_key at commit
UniqueViolation(rows, added) ==
    \E i \in 1..Len(added) : \E j \in 1..Len(rows) :
        rows[j].idempotency_key = added[i].idempotency_key

ItemsOf(r, rows) == {i \in 1..Len(rows) : rows[i].run_id = r}

ItemsWithStatus(r, rows, st) == {i \in ItemsOf(r, rows) : rows[i].status = st}

RECURSIVE BagOfTasks(_)
BagOfTasks(S) ==
    IF S = {} THEN EmptyBag
    ELSE LET i == CHOOSE x \in S : TRUE
         IN  SetToBag({[item |-> i, retries |-> 0, countdown |-> 0]}) (+) BagOfTasks(S \ {i})

InitRuns ==
    /\ runs \in [Runs -> [providers : ProviderLists, prompt_version : {"v1"},
                          status : {"pending"}, cost_cents : {0}]]
    /\ run_items = <<>>
    /\ responses = <<>>
    /\ queue = EmptyBag
    /\ wk = [w \in Workers |-> [pc |-> "idle"]]
    /\ api = [a \in Apis |-> [pc |-> "idle"]]
    /\ calls = [start |-> 0, resume |-> 0, exec |-> 0, acquire |-> 0, invoke |-> 0, kill |-> 0]
    /\ matlog = [r \in Runs |-> [done |-> 0, created |-> 0, errors |-> 0]]
    /\ DeliveryOff
    /\ rlcfg = [qps |-> 1, burst |-> 1]
    /\ bucket = [exists |-> FALSE, tokens |-> 0, last_update |-> 0, expire_at |-> 0]
    /\ clock = 0
    /\ rlw = <<>>
    /\ win = [start |-> -1, count |-> 0]
    /\ EdgesOff

\* start_run up to the commit of materialize_run_items (routes_runs 74-84,
\* run_service 84-145): the run is read and the units are scanned
StartScan(a, r) ==
    /\ api[a].pc = "idle"
    /\ calls.start + calls.resume < MaxRequests
    /\ calls' = [calls EXCEPT !.start = @ + 1]
    /\ api' = [api EXCEPT ![a] =
            [pc |-> "start_scanned", run |-> r,
             added |-> ScanUnits(r, runs[r], Units(runs[r]), run_items, <<>>),
             prior |-> matlog[r].done]]
    /\ UNCHANGED <<runs, run_items, responses, queue, wk, matlog>>
    /\ UNCHANGED <<dvars, rlvars, evars>>

\* the commit of materialize_run_items (run_service 147) and the rest of
\* start_run (routes_runs 86-109). A unique violation raises out of the
\* handler: nothing is inserted and nothing is enqueued.
StartCommit(a) ==
    /\ api[a].pc = "start_scanned"
    /\ LET r == api[a].run
           added == api[a].added
       IN  IF UniqueViolation(run_items, added)
           THEN /\ matlog' = [matlog EXCEPT ![r].errors = @ + 1]
                /\ UNCHANGED <<run_items, queue>>
           ELSE LET rows == run_items \o added
                IN  /\ run_items' = rows
                    /\ matlog' = [matlog EXCEPT ![r].done = @ + 1, ![r].created = Len(added)]
                    /\ queue' = queue (+) BagOfTasks(ItemsWithStatus(r, rows, "pending"))
    /\ api' = [api EXCEPT ![a] = [pc |-> "idle"]]
    /\ UNCHANGED <<runs, responses, wk, calls>>
    /\ UNCHANGED <<dvars, rlvars, evars>>

\* resume_run up to its commit (routes_runs 118-129): the failed items are
\* selected, set to pending in the session, and a task is sent for each
ResumeSelect(a, r) ==
    /\ api[a].pc = "idle"
    /\ calls.start + calls.resume < MaxRequests
    /\ calls' = [calls EXCEPT !.resume = @ + 1]
    /\ LET failed_items == ItemsWithStatus(r, run_items, "failed")
       IN  /\ queue' = queue (+) BagOfTasks(failed_items)
           /\ api' = [api EXCEPT ![a] = [pc |-> "resume_selected", run |-> r, items |-> failed_items]]
    /\ UNCHANGED <<runs, run_items, responses, wk, matlog>>
    /\ UNCHANGED <<dvars, rlvars, evars>>

\* session.commit() of resume_run (routes_runs 131): UPDATE status = 'pending'
\* for every selected item
ResumeCommit(a) ==
    /\ api[a].pc = "resume_selected"
    /\ run_items' = [i \in 1..Len(run_items) |->
            IF i \in api[a].items THEN [run_items[i] EXCEPT !.status = "pending"]
            ELSE run_items[i]]
    /\ api' = [api EXCEPT ![a] = [pc |-> "idle"]]
    /\ UNCHANGED <<runs, responses, queue, wk, calls, matlog>>
    /\ UNCHANGED <<dvars, rlvars, evars>>

\* @celery_app.task(name="execute_run_item", bind=True, max_retries=3)
ExecMaxRetries == 3

\* "if run_item.attempt_count < 3"
MaxExecAttempts == 3

\* what the provider call of one attempt can end in
\* (enabled: provider_registry._enabled_providers of the worker process when
\* the adapter is looked up; acquired: what rate_limiter.acquire returns;
\* kind: how client.invoke ends, "HTTP 400" being an httpx.HTTPStatusError
\* for a 4xx answer other than 429)
ExecOutcomes ==
    [enabled : {{}}, acquired : {FALSE}, kind : {"none"}, cost : {0}]
        \cup [enabled : {EnabledProviders}, acquired : {FALSE}, kind : {"none"}, cost : {0}]
        \cup [enabled : {EnabledProviders}, acquired : {TRUE}, kind : {"ok"}, cost : Costs]
        \cup [enabled : {EnabledProviders}, acquired : {TRUE},
              kind : {"Provider error", "HTTP 400"}, cost : {0}]

\* _execute_run_item_async 43-76: the item is loaded, set to running with
\* attempt_count + 1 and committed; the question and the run are loaded into
\* the session (expire_on_commit = False keeps them as loaded)
ExecStart(w, t) ==
    /\ wk[w].pc = "idle"
    /\ BagIn(t, queue)
    /\ calls.exec < MaxExecutions
    /\ calls' = [calls EXCEPT !.exec = @ + 1]
    /\ queue' = queue (-) SetToBag({t})
    /\ LET item == run_items[t.item]
       IN  /\ run_items' = [run_items EXCEPT ![t.item] =
                  [item EXCEPT !.status = "running", !.attempt_count = @ + 1]]
           /\ wk' = [wk EXCEPT ![w] =
                  [pc |-> "running", item |-> t.item, retries |-> t.retries,
                   attempt_count |-> item.attempt_count + 1,
                   run_id |-> item.run_id,
                   run |-> [status |-> runs[item.run_id].status,
                            cost_cents |-> runs[item.run_id].cost_cents],
                   total_cost |-> 0, new_status |-> "none"]]
    /\ UNCHANGED <<runs, responses, api, matlog>>
    /\ UNCHANGED <<dvars, rlvars, evars>>

\* "provider_config = providers[0]  # Simplified: use first provider",
\* merged with the question's overrides
MergedConfig(run, item) ==
    MergeDicts(run.providers[1], QuestionRow(item.question_id).provider_overrides)

\* what the attempt ends in: the registry refuses a disabled provider before
\* the limiter and the adapter are reached
\* (acquired: a token was taken from the bucket; invoked: client.invoke was
\* called)
AttemptResultInvokingWithoutToken(cfg, out) ==
    IF cfg.name \notin out.enabled
    THEN [kind |-> "Provider not enabled", cost |-> 0, acquired |-> FALSE, invoked |-> FALSE]
    ELSE IF ~out.acquired
    THEN [kind |-> "Rate limit timeout", cost |-> 0, acquired |-> FALSE, invoked |-> TRUE]
    ELSE [kind |-> out.kind, cost |-> out.cost, acquired |-> TRUE, invoked |-> TRUE]

AttemptResult(cfg, out) ==
    IF cfg.name \notin out.enabled
    THEN [kind |-> "Provider not enabled", cost |-> 0, acquired |-> FALSE, invoked |-> FALSE]
    ELSE IF ~out.acquired
    THEN [kind |-> "Rate limit timeout", cost |-> 0, acquired |-> FALSE, invoked |-> FALSE]
    ELSE [kind |-> out.kind, cost |-> out.cost, acquired |-> TRUE, invoked |-> TRUE]

\* "countdown=2 ** run_item.attempt_count", in seconds
RetryCountdown(attempt_count) == 2 ^ attempt_count

\* lines 166-183: the except branch. The item is committed failed, and
\* task.retry is raised when attempt_count < 3.
ExecFail(w, msg) ==
    LET me == wk[w]
    IN  /\ run_items' = [run_items EXCEPT ![me.item].status = "failed",
                                          ![me.item].last_error = msg]
        /\ queue' = IF me.attempt_count < MaxExecAttempts /\ RetrySent(me, ExecMaxRetries)
                    THEN queue (+) SetToBag({[item |-> me.item, retries |-> me.retries + 1,
                                               countdown |-> RetryCountdown(me.attempt_count)]})
                    ELSE queue
        /\ wk' = [wk EXCEPT ![w] = [pc |-> "idle"]]
        /\ UNCHANGED <<runs, responses>>

\* lines 78-146 and the except branch: provider resolution, rate limit,
\* adapter call, and the commit of the Response with the item succeeded
ExecCall(w, out) ==
    /\ wk[w].pc = "running"
    /\ LET me == wk[w]
           item == run_items[me.item]
           cfg == MergedConfig(runs[me.run_id], item)
           res == AttemptResult(cfg, out)
       IN  IF res.kind = "ok"
           THEN /\ responses' = Append(responses,
                        [run_item_id |-> me.item, provider |-> cfg.name, model |-> cfg.model,
                         cost_cents |-> res.cost])
                /\ run_items' = [run_items EXCEPT ![me.item].status = "succeeded",
                                                  ![me.item].last_error = "none"]
                /\ wk' = [wk EXCEPT ![w].pc = "cost_read"]
                /\ UNCHANGED <<runs, queue>>
           ELSE ExecFail(w, res.kind)
    /\ LET res == AttemptResult(MergedConfig(runs[wk[w].run_id], run_items[wk[w].item]), out)
       IN  calls' = [calls EXCEPT !.acquire = @ + (IF res.acquired THEN 1 ELSE 0),
                                  !.invoke = @ + (IF res.invoked THEN 1 ELSE 0)]
    /\ UNCHANGED <<api, matlog>>
    /\ UNCHANGED <<dvars, rlvars, evars>>

RECURSIVE SumCosts(_, _, _)
SumCosts(r, rows, resp) ==
    IF resp = <<>> THEN 0
    ELSE (IF rows[Head(resp).run_item_id].run_id = r THEN Head(resp).cost_cents ELSE 0)
            + SumCosts(r, rows, Tail(resp))

\* update_run_cost 195-201: SELECT sum(Response.cost_cents) of the run
CostRead(w) ==
    /\ wk[w].pc = "cost_read"
    /\ wk' = [wk EXCEPT ![w].total_cost = SumCosts(wk[w].run_id, run_items, responses),
                        ![w].pc = "cost_write"]
    /\ UNCHANGED <<runs, run_items, responses, queue, api, calls, matlog>>
    /\ UNCHANGED <<dvars, rlvars, evars>>

\* update_run_cost 203-210: run.cost_cents = total_cost; commit. The session
\* emits the UPDATE when the value differs from the one it holds.
CostWrite(w) ==
    /\ wk[w].pc = "cost_write"
    /\ LET me == wk[w]
       IN  /\ runs' = IF me.total_cost # me.run.cost_cents
                      THEN [runs EXCEPT ![me.run_id].cost_cents = StoreNumeric2(me.total_cost)]
                      ELSE runs
           /\ wk' = [wk EXCEPT ![w].run.cost_cents = me.total_cost, ![w].pc = "status_read"]
    /\ UNCHANGED <<run_items, responses, queue, api, calls, matlog>>
    /\ UNCHANGED <<dvars, rlvars, evars>>

\* get_run_status_counts
StatusCounts(r, rows) ==
    [total |-> Cardinality(ItemsOf(r, rows)),
     pending |-> Cardinality(ItemsWithStatus(r, rows, "pending")),
     running |-> Cardinality(ItemsWithStatus(r, rows, "running")),
     succeeded |-> Cardinality(ItemsWithStatus(r, rows, "succeeded")),
     failed |-> Cardinality(ItemsWithStatus(r, rows, "failed")),
     skipped |-> Cardinality(ItemsWithStatus(r, rows, "skipped"))]

\* the if / elif chain of update_run_status
RollupStatus(counts) ==
    IF counts.total = 0 THEN "pending"
    ELSE IF counts.succeeded + counts.failed + counts.skipped = counts.total THEN "completed"
    ELSE IF counts.running > 0 \/ counts.succeeded > 0 THEN "running"
    ELSE "pending"

\* update_run_status 222-241: the counts are read and the new status computed
StatusRead(w) ==
    /\ wk[w].pc = "status_read"
    /\ wk' = [wk EXCEPT ![w].new_status = RollupStatus(StatusCounts(wk[w].run_id, run_items)),
                        ![w].pc = "status_write"]
    /\ UNCHANGED <<runs, run_items, responses, queue, api, calls, matlog>>
    /\ UNCHANGED <<dvars, rlvars, evars>>

\* update_run_status 243-247: "if run.status != new_status", on the Run the
\* session holds; the task returns
StatusWrite(w) ==
    /\ wk[w].pc = "status_write"
    /\ LET me == wk[w]
       IN  runs' = IF me.run.status # me.new_status
                   THEN [runs EXCEPT ![me.run_id].status = me.new_status]
                   ELSE runs
    /\ wk' = [wk EXCEPT ![w] = [pc |-> "idle"]]
    /\ UNCHANGED <<run_items, responses, queue, api, calls, matlog>>
    /\ UNCHANGED <<dvars, rlvars, evars>>

Next ==
    \/ \E a \in Apis : \E r \in Runs : StartScan(a, r)
    \/ \E a \in Apis : StartCommit(a)
    \/ \E a \in Apis : \E r \in Runs : ResumeSelect(a, r)
    \/ \E a \in Apis : ResumeCommit(a)
    \/ \E w \in Workers : \E t \in BagToSet(queue) : ExecStart(w, t)
    \/ \E w \in Workers : \E out \in ExecOutcomes : ExecCall(w, out)
    \/ \E w \in Workers : CostRead(w)
    \/ \E w \in Workers : CostWrite(w)
    \/ \E w \in Workers : StatusRead(w)
    \/ \E w \in Workers : StatusWrite(w)

Spec == InitRuns /\ [][Next]_vars

\* the rows of a run of one unit whose item failed in each of its three
\* attempts: the worker's own retries are used up and nothing is queued.
\* (update_run_status is reached only after a success, so the run is still
\* pending.)
ExhaustedRuns ==
    [r \in Runs |-> [providers |-> <<SpecMini>>, prompt_version |-> "v1",
                     status |-> "pending", cost_cents |-> 0]]

ExhaustedItems ==
    LET added == ScanUnits(1, ExhaustedRuns[1], Units(ExhaustedRuns[1]), <<>>, <<>>)
    IN  [i \in 1..Len(added) |->
            [added[i] EXCEPT !.status = "failed", !.attempt_count = MaxExecAttempts,
                             !.last_error = "Provider error"]]

\* the pipeline at rest after run 1 was started and its unit failed three
\* times; the counters of the requests and executions to come start at 0
InitExhausted ==
    /\ runs = ExhaustedRuns
    /\ run_items = ExhaustedItems
    /\ responses = <<>>
    /\ queue = EmptyBag
    /\ wk = [w \in Workers |-> [pc |-> "idle"]]
    /\ api = [a \in Apis |-> [pc |-> "idle"]]
    /\ calls = [start |-> 0, resume |-> 0, exec |-> 0, acquire |-> 0, invoke |-> 0, kill |-> 0]
    /\ matlog = [r \in Runs |-> IF r = 1 THEN [done |-> 1, created |-> 1, errors |-> 0]
                                 ELSE [done |-> 0, created |-> 0, errors |-> 0]]
    /\ DeliveryOff
    /\ rlcfg = [qps |-> 1, burst |-> 1]
    /\ bucket = [exists |-> FALSE, tokens |-> 0, last_update |-> 0, expire_at |-> 0]
    /\ clock = 0
    /\ rlw = <<>>
    /\ win = [start |-> -1, count |-> 0]
    /\ EdgesOff

\* the run pipeline continued from there
SpecExhausted == InitExhausted /\ [][Next]_vars

\* how many times a worker process is killed in all
MaxKills == 1

\* a worker process is killed (SIGKILL, out of memory, the hard time limit of
\* celery_app.py 20) in the middle of an attempt and a new process takes its
\* place. Nothing is committed on the way out: the task body has no handler
\* for it. celery_app.conf sets neither task_acks_late nor
\* task_reject_on_worker_lost, so the message was acknowledged when the task
\* began and the broker does not deliver it again.
WorkerKilled(w) ==
    /\ wk[w].pc = "running"
    /\ calls.kill < MaxKills
    /\ calls' = [calls EXCEPT !.kill = @ + 1]
    /\ wk' = [wk EXCEPT ![w] = [pc |-> "idle"]]
    /\ UNCHANGED <<runs, run_items, responses, queue, api, matlog>>
    /\ UNCHANGED <<dvars, rlvars, evars>>

NextCrash == Next \/ \E w \in Workers : WorkerKilled(w)

\* the run pipeline with worker processes that can be killed
SpecCrash == InitRuns /\ [][NextCrash]_vars

\* what the queue and the workers do on their own: a queued task is taken by
\* an idle worker, and a worker that began an attempt carries it through
WorkerStep ==
    \/ \E w \in Workers : \E t \in BagToSet(queue) : ExecStart(w, t)
    \/ \E w \in Workers : \E out \in ExecOutcomes : ExecCall(w, out)
    \/ \E w \in Workers : CostRead(w)
    \/ \E w \in Workers : CostWrite(w)
    \/ \E w \in Workers : StatusRead(w)
    \/ \E w \in Workers : StatusWrite(w)

\* a request handler that read its rows goes on to its commit
HandlerStep == \E a \in Apis : StartCommit(a) \/ ResumeCommit(a)

\* the run pipeline with a fair queue, fair workers and handlers that return:
\* no process crashes or stops for good. Requests are made or not.
SpecFair == InitRuns /\ [][Next]_vars /\ WF_vars(WorkerStep) /\ WF_vars(HandlerStep)

(***************************************************************************)
(* Exports: create_export and the result composer                          *)
(***************************************************************************)

\* RunItems in the database when exports are requested
NumExportItems == 2

\* Responses one RunItem may have (see C1)
MaxItemResponses == 2

\* export requests made in all
MaxExports == 1

\* the statuses the worker and resume_run give a RunItem
ItemStatuses == {"pending", "running", "succeeded", "failed"}

\* MAPPER_REGISTRY
MapperRegistry == {"example_partner"}

\* data.mapper_name of a request: none, a registered mapper, an unknown one
MapperNames == {"none", "example_partner", "unknown_mapper"}

\* the keyword arguments create_export passes to create_delivery
CreateDeliveryKwargs == {"export_id", "run_id", "mapper_name", "mapper_version", "payload"}

\* the parameters of ExportService.create_delivery
CreateDeliveryParams == {"export_id", "run_id", "mapper_name", "payload"}

\* a Python call with keyword arguments: an unexpected keyword is a TypeError
CallAccepted(kwargs, params) == kwargs \subseteq params

\* the Responses of one RunItem, in creation order
ResponsesOfItem(i, resp) == SelectSeq(resp, LAMBDA x : x.run_item_id = i)

\* get_run_results_for_export: RunItem LEFT OUTER JOIN Response of the run,
\* ordered by RunItem.created_at; one result per joined row
RECURSIVE ComposeFrom(_, _, _, _)
ComposeFrom(r, rows, resp, i) ==
    IF i > Len(rows) THEN <<>>
    ELSE IF rows[i].run_id # r THEN ComposeFrom(r, rows, resp, i + 1)
    ELSE LET mine == ResponsesOfItem(i, resp)
             base == [run_id |-> r, run_item_id |-> i, status |-> rows[i].status,
                      provider |-> "none", model |-> "none"]
         IN  (IF mine = <<>> THEN <<base>>
              ELSE [k \in 1..Len(mine) |->
                      [base EXCEPT !.provider = mine[k].provider, !.model = mine[k].model]])
                 \o ComposeFrom(r, rows, resp, i + 1)

get_run_results_for_export(r, rows, resp) == ComposeFrom(r, rows, resp, 1)

\* ExampleWebhookMapper.map
MapPayload(result) ==
    [query_id |-> result.run_item_id,
     metadata |-> [provider |-> result.provider, model |-> result.model]]

\* the Responses of a database in which item i has cnt[i] of them
RECURSIVE ResponsesFor(_, _)
ResponsesFor(cnt, i) ==
    IF i > NumExportItems THEN <<>>
    ELSE [k \in 1..cnt[i] |->
            [run_item_id |-> i, provider |-> "openai", model |-> "gpt-4o-mini",
             cost_cents |-> 12500]]
         \o ResponsesFor(cnt, i + 1)

\* A database the run pipeline can leave behind: every RunItem belongs to a
\* run and has a status; a succeeded one has at least one Response.
InitExport ==
    /\ runs = [r \in Runs |-> [providers |-> <<SpecMini>>, prompt_version |-> "v1",
                               status |-> "pending", cost_cents |-> 0]]
    /\ \E owner \in [1..NumExportItems -> Runs] :
       \E st \in [1..NumExportItems -> ItemStatuses] :
       \E cnt \in [1..NumExportItems -> 0..MaxItemResponses] :
          /\ \A i \in 1..NumExportItems : st[i] = "succeeded" => cnt[i] >= 1
          /\ run_items = [i \in 1..NumExportItems |->
                [run_id |-> owner[i], question_id |-> i, idempotency_key |-> <<i>>,
                 status |-> st[i], attempt_count |-> 1, last_error |-> "none"]]
          /\ responses = ResponsesFor(cnt, 1)
    /\ queue = EmptyBag
    /\ wk = <<>>
    /\ api = <<>>
    /\ calls = <<>>
    /\ matlog = <<>>
    /\ deliveries = <<>>
    /\ dtasks = {}
    /\ dlog = <<>>
    /\ rlcfg = [qps |-> 1, burst |-> 1]
    /\ bucket = [exists |-> FALSE, tokens |-> 0, last_update |-> 0, expire_at |-> 0]
    /\ clock = 0
    /\ rlw = <<>>
    /\ win = [start |-> -1, count |-> 0]
    /\ exports = <<>>
    /\ admission = <<>>
    /\ invocation = <<>>
    /\ questions = <<>>
    /\ calc = <<>>

\* create_export, lines 60-73: the Export row is committed and export_job sent
ExportCreate(r, mapper) ==
    /\ Len(exports) < MaxExports
    /\ exports' = Append(exports,
            [run_id |-> r, mapper_name |-> mapper, pc |-> "created", results |-> <<>>,
             next |-> 1, deliveries_created |-> 0, outcome |-> "none"])
    /\ UNCHANGED <<rvars, dvars, rlvars, admission, invocation, questions, calc>>

\* lines 76-86: without a mapper the handler returns; with one the results
\* are composed and the mapper looked up (ValueError -> HTTP 400)
ExportCompose(e) ==
    /\ exports[e].pc = "created"
    /\ LET ex == exports[e]
       IN  exports' = [exports EXCEPT ![e] =
              IF ex.mapper_name = "none"
              THEN [ex EXCEPT !.pc = "done", !.outcome = "returned"]
              ELSE LET res == get_run_results_for_export(ex.run_id, run_items, responses)
                   IN  IF ex.mapper_name \notin MapperRegistry
                       THEN [ex EXCEPT !.results = res, !.pc = "done", !.outcome = "http_400"]
                       ELSE [ex EXCEPT !.results = res, !.pc = "delivering"]]
    /\ UNCHANGED <<rvars, dvars, rlvars, admission, invocation, questions, calc>>

\* lines 90-106, one iteration: a succeeded result is mapped, create_delivery
\* is called and the delivery enqueued; the loop's end returns the response
ExportDeliver(e) ==
    /\ exports[e].pc = "delivering"
    /\ LET ex == exports[e]
       IN  IF ex.next > Len(ex.results)
           THEN /\ exports' = [exports EXCEPT ![e].pc = "done", ![e].outcome = "returned"]
                /\ UNCHANGED <<deliveries, dtasks>>
           ELSE IF ex.results[ex.next].status # "succeeded"
           THEN /\ exports' = [exports EXCEPT ![e].next = @ + 1]
                /\ UNCHANGED <<deliveries, dtasks>>
           ELSE IF ~CallAccepted(CreateDeliveryKwargs, CreateDeliveryParams)
           THEN /\ exports' = [exports EXCEPT ![e].pc = "done", ![e].outcome = "TypeError"]
                /\ UNCHANGED <<deliveries, dtasks>>
           ELSE /\ deliveries' = Append(deliveries,
                      [export_id |-> e, run_id |-> ex.run_id, mapper_name |-> ex.mapper_name,
                       payload |-> MapPayload(ex.results[ex.next]),
                       status |-> "pending", attempts |-> 0])
                /\ dtasks' = dtasks \cup
                      {[delivery |-> Len(deliveries) + 1, retries |-> 0, pc |-> "queued"]}
                /\ exports' = [exports EXCEPT ![e].next = @ + 1,
                                              ![e].deliveries_created = @ + 1]
    /\ UNCHANGED <<rvars, dlog, rlvars, admission, invocation, questions, calc>>

NextExport ==
    \/ \E r \in Runs : \E mapper \in MapperNames : ExportCreate(r, mapper)
    \/ \E e \in DOMAIN exports : ExportCompose(e)
    \/ \E e \in DOMAIN exports : ExportDeliver(e)

SpecExport == InitExport /\ [][NextExport]_vars

(***************************************************************************)
(* Create Run admission (routes_runs.py create_run, registry.py,           *)
(* run_service.py create_run).  Provider names are character sequences so  *)
(* that str.lower() is computed.                                           *)
(***************************************************************************)
MaxAdmissions == 2
MaxSpecProviders == 2

UpperLetters == <<"A", "E", "G", "I", "M", "N", "O", "P">>
LowerLetters == <<"a", "e", "g", "i", "m", "n", "o", "p">>

\* str.lower() on one character
lower_char(c) ==
    IF \E i \in DOMAIN UpperLetters : UpperLetters[i] = c
    THEN LowerLetters[CHOOSE i \in DOMAIN UpperLetters : UpperLetters[i] = c]
    ELSE c

\* str.lower()
lower(s) == [i \in DOMAIN s |-> lower_char(s[i])]

NameOpenai == <<"o", "p", "e", "n", "a", "i">>
NameGemini == <<"g", "e", "m", "i", "n", "i">>
NamePerplexity == <<"p", "e", "r", "p", "l", "e", "x", "i", "t", "y">>

\* provider names a request body may carry (ProviderConfig.name is any string)
RequestNames ==
    { NameOpenai, <<"O", "p", "e", "n", "A", "I">>,
      NameGemini, <<"G", "E", "M", "I", "N", "I">>,
      <<"P", "e", "r", "p", "l", "e", "x", "i", "t", "y">>,
      <<"c", "l", "a", "u", "d", "e">> }

\* RunCreate.providers: min_length = 1
RequestProviders == UNION { [1..n -> RequestNames] : n \in 1..MaxSpecProviders }

\* ProviderRegistry._initialize: the list built from the feature flags
enabled_providers(flags) ==
    (IF flags.enable_openai THEN {NameOpenai} ELSE {})
      \cup (IF flags.enable_gemini THEN {NameGemini} ELSE {})
      \cup (IF flags.enable_perplexity THEN {NamePerplexity} ELSE {})

\* a registry that compares the name as given
is_enabledAsGiven(name, flags) == name \in enabled_providers(flags)

\* ProviderRegistry.is_enabled
is_enabled(name, flags) == lower(name) \in enabled_providers(flags)

\* the Run row RunService.create_run commits
NewRun(campaign, names) ==
    [campaign_id |-> campaign, providers |-> names, prompt_version |-> "v1",
     status |-> "pending", cost_cents |-> 0]

Campaigns == {"c1"}
CampaignIds == {"c1", "missing"}

InitAdmit ==
    /\ runs = <<>>
    /\ run_items = <<>>
    /\ responses = <<>>
    /\ queue = EmptyBag
    /\ wk = <<>>
    /\ api = <<>>
    /\ calls = <<>>
    /\ matlog = <<>>
    /\ DeliveryOff
    /\ rlcfg = [qps |-> 1, burst |-> 1]
    /\ bucket = [exists |-> FALSE, tokens |-> 0, last_update |-> 0, expire_at |-> 0]
    /\ clock = 0
    /\ rlw = <<>>
    /\ win = [start |-> -1, count |-> 0]
    /\ exports = <<>>
    /\ \E f \in [enable_openai : BOOLEAN, enable_gemini : BOOLEAN,
                 enable_perplexity : BOOLEAN] :
          admission = [flags |-> f, requests |-> 0,
                       last |-> [outcome |-> "none", names |-> <<>>,
                                 campaign_id |-> "none", run_id |-> 0]]
    /\ invocation = <<>>
    /\ questions = <<>>
    /\ calc = <<>>

\* POST /runs: create_run of routes_runs.py with RunService.create_run inlined
CreateRun(names, campaign) ==
    /\ admission.requests < MaxAdmissions
    /\ IF \E i \in DOMAIN names : ~is_enabled(names[i], admission.flags)
       THEN /\ runs' = runs
            /\ admission' = [admission EXCEPT !.requests = @ + 1,
                   !.last = [outcome |-> "HTTP 400", names |-> names,
                             campaign_id |-> campaign, run_id |-> 0]]
       ELSE IF campaign \notin Campaigns
       THEN /\ runs' = runs
            /\ admission' = [admission EXCEPT !.requests = @ + 1,
                   !.last = [outcome |-> "ValueError", names |-> names,
                             campaign_id |-> campaign, run_id |-> 0]]
       ELSE /\ runs' = Append(runs, NewRun(campaign, names))
            /\ admission' = [admission EXCEPT !.requests = @ + 1,
                   !.last = [outcome |-> "HTTP 201", names |-> names,
                             campaign_id |-> campaign, run_id |-> Len(runs) + 1]]
    /\ UNCHANGED <<run_items, responses, queue, wk, api, calls, matlog,
                   dvars, rlvars, exports, invocation, questions, calc>>

NextAdmit ==
    \E names \in RequestProviders : \E campaign \in CampaignIds :
        CreateRun(names, campaign)

SpecAdmit == InitAdmit /\ [][NextAdmit]_vars

(***************************************************************************)
(* Provider adapters (openai_client.py, gemini_client.py,                  *)
(* perplexity_client.py): invoke and _parse_and_validate_json.  Sampling   *)
(* values are in tenths (temperature 0.7 is 7, top_p 1.0 is 10).           *)
(***************************************************************************)
Adapters == {"openai", "gemini", "perplexity"}

default_temperature == 0
default_top_p == 10
SeedValue == 42

\* keyword arguments of invoke: each key is either passed or not
SamplingKwargs ==
    [allow_sampling : {[set |-> FALSE, v |-> FALSE], [set |-> TRUE, v |-> FALSE],
                       [set |-> TRUE, v |-> TRUE]},
     temperature : {[set |-> FALSE, v |-> 0], [set |-> TRUE, v |-> 0],
                    [set |-> TRUE, v |-> 7]},
     top_p : {[set |-> FALSE, v |-> 10], [set |-> TRUE, v |-> 10],
              [set |-> TRUE, v |-> 9]}]

\* dict.get(key, default)
DictGet(d, key, default) == IF d[key].set THEN d[key].v ELSE default

\* The object the name settings denotes inside invoke: the **settings
\* parameter (a dict of the keyword arguments) hides the module-level
\* app.core.config.settings imported at the top of each adapter.
SettingsInInvoke == "dict"

\* attribute access obj.attr: a dict has no configuration attributes
HasAttribute(obj, attr) ==
    obj = "Settings" /\ attr \in {"default_temperature", "default_top_p", "default_max_tokens"}

\* api_request as built from the resolved values (openai adds the seed)
ApiRequest(adapter, kwargs) ==
    LET allow_sampling == DictGet(kwargs, "allow_sampling", FALSE)
        temperature == DictGet(kwargs, "temperature", default_temperature)
        top_p == DictGet(kwargs, "top_p", default_top_p)
    IN  [temperature |-> IF ~allow_sampling THEN 0 ELSE temperature,
         top_p |-> IF ~allow_sampling THEN 10 ELSE top_p,
         seed |-> IF adapter = "openai" /\ ~allow_sampling THEN <<SeedValue>> ELSE <<>>]

\* invoke up to the HTTP request: the default argument of settings.get is
\* evaluated first, and the attribute access raises before a body is built
InvokeRequest(adapter, kwargs) ==
    IF ~HasAttribute(SettingsInInvoke, "default_temperature")
    THEN [error |-> "AttributeError", body |-> <<>>]
    ELSE [error |-> "none", body |-> <<ApiRequest(adapter, kwargs)>>]

\* one member of a JSON object: its type, string value, array items
JStr(s) == [t |-> "string", s |-> s, a |-> <<>>]
JArr(a) == [t |-> "array", s |-> "", a |-> a]
JNum == [t |-> "number", s |-> "", a |-> <<>>]
JObj == [t |-> "object", s |-> "", a |-> <<>>]

\* Reply bodies: the raw text, the text as a sequence of pieces (a fence
\* marker "fence_json" or "fence", the JSON document "doc", or "prose"), whether the
\* document is well-formed JSON, and the value json.loads yields for it
Reply(raw, pieces, wellformed, type, members) ==
    [raw |-> raw, pieces |-> pieces, wellformed |-> wellformed, type |-> type,
     members |-> members]

ReplyContents ==
    { Reply("Plain text, not JSON", <<"prose">>, FALSE, "none", <<>>),
      Reply("fenced {answer: cut off", <<"fence_json", "doc", "fence">>, FALSE, "none", <<>>),
      Reply("{answer, citations, meta}", <<"doc">>, TRUE, "object",
            [answer |-> JStr("Test answer"), citations |-> JArr(<<"https://a.example">>),
             meta |-> JObj]),
      Reply("fenced json {answer}", <<"fence_json", "doc", "fence">>, TRUE, "object",
            [answer |-> JStr("Test answer")]),
      Reply("fenced {answer}", <<"fence", "doc", "fence">>, TRUE, "object",
            [answer |-> JStr("Test answer")]),
      Reply("Here you go: {answer}", <<"prose", "doc">>, TRUE, "object",
            [answer |-> JStr("Test answer")]),
      Reply("open fence {answer}", <<"fence_json", "doc">>, TRUE, "object",
            [answer |-> JStr("Test answer")]),
      Reply("{citations only}", <<"doc">>, TRUE, "object", [citations |-> JArr(<<>>)]),
      Reply("{answer, extra}", <<"doc">>, TRUE, "object",
            [answer |-> JStr("Test answer"), extra |-> JStr("x")]),
      Reply("{answer: 42}", <<"doc">>, TRUE, "object", [answer |-> JNum]),
      Reply("fenced {answer, citations: string}", <<"fence_json", "doc", "fence">>, TRUE,
            "object", [answer |-> JStr("Test answer"), citations |-> JStr("https://a.example")]),
      Reply("{answer, meta: string}", <<"doc">>, TRUE, "object",
            [answer |-> JStr("Test answer"), meta |-> JStr("m")]),
      Reply("[1, 2]", <<"doc">>, TRUE, "array", <<>>),
      Reply("42", <<"doc">>, TRUE, "number", <<>>) }

\* str.find over the pieces: the first index at or after from holding one of
\* the markers, 0 when there is none
FindPiece(pieces, markers, from) ==
    IF \E i \in from..Len(pieces) : pieces[i] \in markers
    THEN CHOOSE i \in from..Len(pieces) :
            /\ pieces[i] \in markers
            /\ \A j \in from..(i - 1) : pieces[j] \notin markers
    ELSE 0

\* the text handed to json.loads: what lies between the fences, the whole text
\* when there is no fence; a missing closing fence makes end = -1, which cuts
\* the last character off
json_str(content) ==
    LET pieces == content.pieces
        start == IF FindPiece(pieces, {"fence_json"}, 1) > 0
                 THEN FindPiece(pieces, {"fence_json"}, 1)
                 ELSE FindPiece(pieces, {"fence", "fence_json"}, 1)
        end == IF start = 0 THEN 0 ELSE FindPiece(pieces, {"fence", "fence_json"}, start + 1)
    IN  IF start = 0 THEN pieces
        ELSE IF end > 0 THEN SubSeq(pieces, start + 1, end - 1)
        ELSE SubSeq(pieces, start + 1, Len(pieces) - 1) \o <<"cut">>

\* json.loads: succeeds when the text is exactly one well-formed document
json_loads(content) ==
    IF json_str(content) = <<"doc">> /\ content.wellformed
    THEN [ok |-> TRUE, type |-> content.type, members |-> content.members]
    ELSE [ok |-> FALSE, type |-> "none", members |-> <<>>]

\* jsonschema.validate against RESPONSE_JSON_SCHEMA (formats are not checked)
SchemaValid(parsed) ==
    /\ parsed.type = "object"
    /\ "answer" \in DOMAIN parsed.members
    /\ DOMAIN parsed.members \subseteq {"answer", "citations", "meta"}
    /\ parsed.members.answer.t = "string"
    /\ "citations" \in DOMAIN parsed.members => parsed.members.citations.t = "array"
    /\ "meta" \in DOMAIN parsed.members => parsed.members.meta.t = "object"

\* a parser that lets the exception out
parse_and_validate_json_raising(content) ==
    LET parsed == json_loads(content)
    IN  IF parsed.ok /\ SchemaValid(parsed)
        THEN [raised |-> "none", fallback |-> FALSE,
              answer |-> parsed.members.answer.s,
              citations |-> IF "citations" \in DOMAIN parsed.members
                            THEN parsed.members.citations.a ELSE <<>>,
              validation_error |-> "none"]
        ELSE [raised |-> IF parsed.ok THEN "ValidationError" ELSE "JSONDecodeError",
              fallback |-> FALSE, answer |-> "", citations |-> <<>>,
              validation_error |-> "none"]

\* _parse_and_validate_json: (validated_json, citations)
parse_and_validate_json(content) ==
    LET parsed == json_loads(content)
    IN  IF parsed.ok /\ SchemaValid(parsed)
        THEN [raised |-> "none", fallback |-> FALSE,
              answer |-> parsed.members.answer.s,
              citations |-> IF "citations" \in DOMAIN parsed.members
                            THEN parsed.members.citations.a ELSE <<>>,
              validation_error |-> "none"]
        ELSE [raised |-> "none", fallback |-> TRUE,
              answer |-> content.raw, citations |-> <<>>,
              validation_error |-> IF parsed.ok THEN "ValidationError"
                                   ELSE "JSONDecodeError"]

\* ProviderResult built by invoke from the parser's return value, and the
\* Response row and RunItem status the execution worker stores from it
ResponseFromReply(content) ==
    LET p == parse_and_validate_json(content)
    IN  IF p.raised # "none"
        THEN [item_status |-> "failed", text |-> "", citations |-> <<>>,
              validation_error |-> "none"]
        ELSE [item_status |-> "succeeded", text |-> p.answer,
              citations |-> p.citations, validation_error |-> p.validation_error]

InitAdapter ==
    /\ RunsOff
    /\ DeliveryOff
    /\ rlcfg = [qps |-> 1, burst |-> 1]
    /\ bucket = [exists |-> FALSE, tokens |-> 0, last_update |-> 0, expire_at |-> 0]
    /\ clock = 0
    /\ rlw = <<>>
    /\ win = [start |-> -1, count |-> 0]
    /\ exports = <<>>
    /\ admission = <<>>
    /\ \E a \in Adapters : \E kw \in SamplingKwargs : \E c \in ReplyContents :
          invocation = [adapter |-> a, kwargs |-> kw, content |-> c,
                        invoked |-> FALSE, error |-> "none", body |-> <<>>,
                        parsed |-> FALSE, result |-> <<>>, stored |-> <<>>]
    /\ questions = <<>>
    /\ calc = <<>>

\* client.invoke(request, **merged_config)
AdapterInvoke ==
    /\ ~invocation.invoked
    /\ LET r == InvokeRequest(invocation.adapter, invocation.kwargs)
       IN  invocation' = [invocation EXCEPT !.invoked = TRUE, !.error = r.error,
                                            !.body = r.body]
    /\ UNCHANGED <<rvars, dvars, rlvars, exports, admission, questions, calc>>

\* client._parse_and_validate_json(content) on the reply text, and what the
\* caller builds from its return value
ParseReply ==
    /\ ~invocation.parsed
    /\ invocation' = [invocation EXCEPT !.parsed = TRUE,
                         !.result = <<parse_and_validate_json(invocation.content)>>,
                         !.stored = <<ResponseFromReply(invocation.content)>>]
    /\ UNCHANGED <<rvars, dvars, rlvars, exports, admission, questions, calc>>

NextAdapter == AdapterInvoke \/ ParseReply

SpecAdapter == InitAdapter /\ [][NextAdapter]_vars

(***************************************************************************)
(* The retry wrapper of invoke (tenacity, openai_client.py 121-125 and the *)
(* same decorator in gemini_client.py and perplexity_client.py), applied   *)
(* to the request part of the body: client.post and raise_for_status.      *)
(***************************************************************************)
\* stop_after_attempt(3)
StopAfterAttempt == 3

\* what the provider does with one POST: an answer with a status code, no
\* answer within the client timeout, or a connection failure
HttpAnswers == {"200", "400", "429", "500", "timeout", "network"}

\* the exception one execution of the body ends in. A timeout and a
\* connection failure are raised by client.post; a 4xx or 5xx answer by
\* response.raise_for_status() (gemini and perplexity raise the same
\* HTTPStatusError for 429 themselves)
body_exception(adapter, answer) ==
    CASE answer = "200" -> "none"
      [] answer = "timeout" -> "TimeoutException"
      [] answer = "network" -> "NetworkError"
      [] OTHER -> "HTTPStatusError"

\* retry_if_exception_type((httpx.TimeoutException, httpx.NetworkError))
retry_if_exception_type == {"TimeoutException", "NetworkError"}

\* one round of the wrapper after the body ran for the n-th time: return the
\* result, raise the exception unchanged when the predicate rejects it, give
\* up with RetryError at the stop, or wait for the next round
retry_round(exception, n) ==
    IF exception = "none" THEN [state |-> "returned", error |-> "none"]
    ELSE IF exception \notin retry_if_exception_type THEN [state |-> "raised", error |-> exception]
    ELSE IF n >= StopAfterAttempt THEN [state |-> "raised", error |-> "RetryError"]
    ELSE [state |-> "waiting", error |-> "none"]

AnswerSeqs == [1..StopAfterAttempt -> HttpAnswers]

InitRetry ==
    /\ RunsOff
    /\ DeliveryOff
    /\ rlcfg = [qps |-> 1, burst |-> 1]
    /\ bucket = [exists |-> FALSE, tokens |-> 0, last_update |-> 0, expire_at |-> 0]
    /\ clock = 0
    /\ rlw = <<>>
    /\ win = [start |-> -1, count |-> 0]
    /\ exports = <<>>
    /\ admission = <<>>
    /\ \E a \in Adapters : \E answers \in AnswerSeqs :
          invocation = [adapter |-> a, answers |-> answers, attempts |-> 0,
                        state |-> "calling", error |-> "none"]
    /\ questions = <<>>
    /\ calc = <<>>

\* the body runs once more: one POST, answered as the provider answers it
HttpAttempt ==
    /\ invocation.state = "calling"
    /\ LET n == invocation.attempts + 1
           r == retry_round(body_exception(invocation.adapter, invocation.answers[n]), n)
       IN  invocation' = [invocation EXCEPT !.attempts = n, !.state = r.state,
                                            !.error = r.error]
    /\ UNCHANGED <<rvars, dvars, rlvars, exports, admission, questions, calc>>

\* wait_exponential(multiplier=1, min=2, max=10) has elapsed
RetryWait ==
    /\ invocation.state = "waiting"
    /\ invocation' = [invocation EXCEPT !.state = "calling"]
    /\ UNCHANGED <<rvars, dvars, rlvars, exports, admission, questions, calc>>

NextRetry == HttpAttempt \/ RetryWait

SpecRetry == InitRetry /\ [][NextRetry]_vars

(***************************************************************************)
(* Question import (ingest_service.py import_questions).  One campaign and *)
(* one persona; topics are found or created by title, questions are looked *)
(* up by the external_id stored in their metadata.                         *)
(***************************************************************************)
MaxBatch == 2
MaxImports == 2

TopicTitles == {"Battery", "Camera"}
DefaultIds == <<"Q_0", "Q_1">>

\* QuestionImportItem: topic title, question.id (absent or given) and the
\* external_id key of question.metadata (absent or given)
ImportItems ==
    [topic : TopicTitles, id : {<<>>, <<"Q001">>, <<"Q_1">>},
     metadata_external_id : {<<>>, <<"Q001">>, <<"X9">>}]

Batches == UNION { [1..n -> ImportItems] : n \in 1..MaxBatch }

\* question_data.get("id", f"Q_{idx}"), idx counted from 0
question_id(item, pos) == IF item.id = <<>> THEN DefaultIds[pos] ELSE item.id[1]

\* {"external_id": question_id, **question_data.get("metadata", {}), ...}:
\* a later key of the dict display replaces an earlier one
StoredExternalId(item, pos) ==
    IF item.metadata_external_id = <<>> THEN question_id(item, pos)
    ELSE item.metadata_external_id[1]

\* _upsert_topic: the id of the topic with this title, 0 when there is none
TopicId(topics, title) ==
    IF \E t \in DOMAIN topics : topics[t] = title
    THEN CHOOSE t \in DOMAIN topics : topics[t] = title
    ELSE 0

\* _get_question_by_external_id (pending rows are flushed before the SELECT)
QuestionExists(rows, topic_id, external_id) ==
    \E q \in DOMAIN rows : rows[q].topic_id = topic_id /\ rows[q].external_id = external_id

\* the loop of import_questions from item pos on
RECURSIVE ImportFrom(_, _, _)
ImportFrom(items, pos, acc) ==
    IF pos > Len(items) THEN acc
    ELSE LET item == items[pos]
             topics == IF TopicId(acc.topics, item.topic) = 0
                       THEN Append(acc.topics, item.topic) ELSE acc.topics
             topic_id == TopicId(topics, item.topic)
         IN  IF QuestionExists(acc.rows, topic_id, question_id(item, pos))
             THEN ImportFrom(items, pos + 1,
                             [acc EXCEPT !.topics = topics, !.skipped = @ + 1])
             ELSE ImportFrom(items, pos + 1,
                             [acc EXCEPT !.topics = topics, !.imported = @ + 1,
                                 !.rows = Append(@, [topic_id |-> topic_id,
                                     external_id |-> StoredExternalId(item, pos),
                                     source |-> pos])])

import_questions(items, topics, rows) ==
    ImportFrom(items, 1, [topics |-> topics, rows |-> rows, imported |-> 0, skipped |-> 0])

InitIngest ==
    /\ RunsOff
    /\ DeliveryOff
    /\ rlcfg = [qps |-> 1, burst |-> 1]
    /\ bucket = [exists |-> FALSE, tokens |-> 0, last_update |-> 0, expire_at |-> 0]
    /\ clock = 0
    /\ rlw = <<>>
    /\ win = [start |-> -1, count |-> 0]
    /\ exports = <<>>
    /\ admission = <<>>
    /\ invocation = <<>>
    /\ calc = <<>>
    /\ \E b \in Batches :
          questions = [batch |-> b, topics |-> <<>>, rows |-> <<>>,
                       reports |-> <<>>, stored |-> <<>>]

\* POST of the batch: import_questions up to and including its commit
Import ==
    /\ Len(questions.reports) < MaxImports
    /\ LET r == import_questions(questions.batch, questions.topics, questions.rows)
       IN  questions' = [questions EXCEPT !.topics = r.topics, !.rows = r.rows,
               !.reports = Append(@, [imported |-> r.imported, skipped |-> r.skipped]),
               !.stored = Append(@, r.rows)]
    /\ UNCHANGED <<rvars, dvars, rlvars, exports, admission, invocation, calc>>

NextIngest == Import

SpecIngest == InitIngest /\ [][NextIngest]_vars

(***************************************************************************)
(* Two imports at once. Each runs import_questions in a session of its     *)
(* own: the SELECT of _get_question_by_external_id sees the committed rows *)
(* (and the session's own), the INSERT becomes visible at the commit. The  *)
(* topics were created by an earlier import; each import carries one item. *)
(***************************************************************************)
NumImporters == 2

Importers == 1..NumImporters

ExistingTopics == <<"Battery", "Camera">>

InitConcurrentImport ==
    /\ RunsOff
    /\ DeliveryOff
    /\ rlcfg = [qps |-> 1, burst |-> 1]
    /\ bucket = [exists |-> FALSE, tokens |-> 0, last_update |-> 0, expire_at |-> 0]
    /\ clock = 0
    /\ rlw = <<>>
    /\ win = [start |-> -1, count |-> 0]
    /\ exports = <<>>
    /\ admission = <<>>
    /\ invocation = <<>>
    /\ calc = <<>>
    /\ \E items \in [Importers -> ImportItems] :
          questions = [topics |-> ExistingTopics, rows |-> <<>>,
                       importer |-> [p \in Importers |->
                           [pc |-> "idle", item |-> items[p], existing |-> FALSE]]]

\* ingest_service 77-90: the check for an existing question
ImportCheck(p) ==
    /\ questions.importer[p].pc = "idle"
    /\ LET item == questions.importer[p].item
           topic_id == TopicId(questions.topics, item.topic)
       IN  questions' = [questions EXCEPT !.importer[p].pc = "checked",
               !.importer[p].existing =
                   QuestionExists(questions.rows, topic_id, question_id(item, 1))]
    /\ UNCHANGED <<rvars, dvars, rlvars, exports, admission, invocation, calc>>

\* ingest_service 92-113: the question is added unless one was found, and the
\* session commits. The questions table has no unique constraint on the
\* external id (models.py 97-101), so the INSERT always goes through.
ImportCommit(p) ==
    /\ questions.importer[p].pc = "checked"
    /\ LET me == questions.importer[p]
           topic_id == TopicId(questions.topics, me.item.topic)
       IN  questions' = [questions EXCEPT !.importer[p].pc = "done",
               !.rows = IF me.existing THEN @
                        ELSE Append(@, [topic_id |-> topic_id,
                                        external_id |-> StoredExternalId(me.item, 1),
                                        source |-> p])]
    /\ UNCHANGED <<rvars, dvars, rlvars, exports, admission, invocation, calc>>

NextConcurrentImport ==
    \/ \E p \in Importers : ImportCheck(p)
    \/ \E p \in Importers : ImportCommit(p)

SpecConcurrentImport == InitConcurrentImport /\ [][NextConcurrentImport]_vars

(***************************************************************************)
(* The cost rollup as arithmetic: Response.cost_cents values are summed by *)
(* the database and the sum is stored in Run.cost_cents. Amounts are in    *)
(* 1/10000 cent, the unit of the last digit of Numeric(10, 4).             *)
(***************************************************************************)
\* Response.cost_cents = Column(Numeric(10, 4))
ResponseCostScale == 4

\* Run.cost_cents = Column(Numeric(12, 2))
RunCostScale == 2

MaxCostResponses == 3

\* 0.0003, 0.005, 0.0225, 0.9999, 1.25 and 2 cents
ResponseCosts == {3, 50, 225, 9999, 12500, 20000}

CostLists == UNION { [1..n -> ResponseCosts] : n \in 1..MaxCostResponses }

RECURSIVE SumSeq(_)
SumSeq(xs) == IF xs = <<>> THEN 0 ELSE Head(xs) + SumSeq(Tail(xs))

InitCost ==
    /\ RunsOff
    /\ DeliveryOff
    /\ rlcfg = [qps |-> 1, burst |-> 1]
    /\ bucket = [exists |-> FALSE, tokens |-> 0, last_update |-> 0, expire_at |-> 0]
    /\ clock = 0
    /\ rlw = <<>>
    /\ win = [start |-> -1, count |-> 0]
    /\ exports = <<>>
    /\ admission = <<>>
    /\ invocation = <<>>
    /\ questions = <<>>
    /\ \E costs \in CostLists : calc = [costs |-> costs, stored |-> <<>>]

\* update_run_cost with nothing else going on: the sum is assigned to
\* run.cost_cents and committed, the column keeping two fractional digits
StoreRunCost ==
    /\ calc.stored = <<>>
    /\ calc' = [calc EXCEPT !.stored = <<StoreNumeric2(SumSeq(calc.costs))>>]
    /\ UNCHANGED <<rvars, dvars, rlvars, exports, admission, invocation, questions>>

NextCost == StoreRunCost

SpecCost == InitCost /\ [][NextCost]_vars

(***************************************************************************)
(* compute_idempotency_hash applied to two tuples of arguments             *)
(***************************************************************************)
HashModels == { <<"gpt">>, <<"gpt", "|", "v1">> }

HashPromptVersions == { <<"v1">>, <<"v1", "|", "v1">> }

HashTexts == { <<"H", "i", " ", " ", "A">>, <<"h", "i", " ", "a">>, <<"h", "i", "a">> }

SamplingAB == <<[k |-> "temperature", v |-> JsonNum(<<"0.0">>)], [k |-> "top_p", v |-> JsonNum(<<"1.0">>)]>>
SamplingBA == <<[k |-> "top_p", v |-> JsonNum(<<"1.0">>)], [k |-> "temperature", v |-> JsonNum(<<"0.0">>)]>>

\* provider_settings dicts: the same contents under several key orders, at
\* the top level and one level down, and dicts with other contents
HashSettings ==
    { <<>>,
      <<[k |-> "temperature", v |-> JsonNum(<<"0.0">>)], [k |-> "max_tokens", v |-> JsonNum(<<"1000">>)]>>,
      <<[k |-> "max_tokens", v |-> JsonNum(<<"1000">>)], [k |-> "temperature", v |-> JsonNum(<<"0.0">>)]>>,
      <<[k |-> "temperature", v |-> JsonNum(<<"0.7">>)], [k |-> "max_tokens", v |-> JsonNum(<<"1000">>)]>>,
      <<[k |-> "sampling", v |-> JsonDict(SamplingAB)], [k |-> "name", v |-> JsonStr(<<"openai">>)]>>,
      <<[k |-> "sampling", v |-> JsonDict(SamplingBA)], [k |-> "name", v |-> JsonStr(<<"openai">>)]>>,
      <<[k |-> "name", v |-> JsonStr(<<"openai">>)], [k |-> "sampling", v |-> JsonDict(SamplingBA)]>> }

HashArgs ==
    [provider : {<<"openai">>}, model : HashModels, prompt_version : HashPromptVersions,
     question_id : {<<"Q001">>}, persona_id : {<<"P001">>},
     question_text : HashTexts, provider_settings : HashSettings]

HashOf(x) ==
    compute_idempotency_hash(x.provider, x.model, x.prompt_version, x.question_id,
                             x.persona_id, x.question_text, x.provider_settings)

InitHash ==
    /\ RunsOff
    /\ DeliveryOff
    /\ rlcfg = [qps |-> 1, burst |-> 1]
    /\ bucket = [exists |-> FALSE, tokens |-> 0, last_update |-> 0, expire_at |-> 0]
    /\ clock = 0
    /\ rlw = <<>>
    /\ win = [start |-> -1, count |-> 0]
    /\ exports = <<>>
    /\ admission = <<>>
    /\ invocation = <<>>
    /\ questions = <<>>
    /\ \E x \in HashArgs : \E y \in HashArgs :
          calc = [first |-> x, second |-> y, done |-> FALSE, hashes |-> <<>>]

\* two calls of compute_idempotency_hash
HashBoth ==
    /\ ~calc.done
    /\ calc' = [calc EXCEPT !.done = TRUE,
                            !.hashes = <<HashOf(calc.first), HashOf(calc.second)>>]
    /\ UNCHANGED <<rvars, dvars, rlvars, exports, admission, invocation, questions>>

NextHash == HashBoth

SpecHash == InitHash /\ [][NextHash]_vars

(***************************************************************************)
(* The citation list of a ProviderResult (invoke of the three adapters,    *)
(* after the reply has been parsed).  A URL is its scheme and its host;    *)
(* scheme "none" with an empty host is text that is no URL at all.         *)
(***************************************************************************)
MaxCitations == 2

CitationUrls ==
    { [scheme |-> "https", host |-> "a.example"], [scheme |-> "http", host |-> "b.example"],
      [scheme |-> "ftp", host |-> "c.example"], [scheme |-> "none", host |-> ""] }

CitationLists == UNION { [1..n -> CitationUrls] : n \in 0..MaxCitations }

\* url_pattern.match(url) of _validate_urls
UrlPatternMatches(url) == url.scheme \in {"http", "https"} /\ url.host # ""

\* _validate_urls: the matching URLs in the order given
RECURSIVE validate_urls(_)
validate_urls(urls) ==
    IF urls = <<>> THEN <<>>
    ELSE (IF UrlPatternMatches(Head(urls)) THEN <<Head(urls)>> ELSE <<>>)
         \o validate_urls(Tail(urls))

\* list(set(xs)): the distinct elements in an order the language leaves open
ListOfSet(xs) ==
    LET elems == {xs[i] : i \in DOMAIN xs}
    IN  {order \in [1..Cardinality(elems) -> elems] :
            \A i, j \in DOMAIN order : order[i] = order[j] => i = j}

\* the lists an adapter may put into ProviderResult.citations, given the
\* citations of the parsed JSON body and those of the provider's own channel
ResultCitations(adapter, json_citations, channel_citations) ==
    IF adapter = "openai" THEN {json_citations}
    ELSE {validate_urls(order) : order \in ListOfSet(json_citations \o channel_citations)}

InitCite ==
    /\ RunsOff
    /\ DeliveryOff
    /\ rlcfg = [qps |-> 1, burst |-> 1]
    /\ bucket = [exists |-> FALSE, tokens |-> 0, last_update |-> 0, expire_at |-> 0]
    /\ clock = 0
    /\ rlw = <<>>
    /\ win = [start |-> -1, count |-> 0]
    /\ exports = <<>>
    /\ admission = <<>>
    /\ invocation = <<>>
    /\ questions = <<>>
    /\ \E a \in Adapters : \E js \in CitationLists : \E ch \in CitationLists :
          /\ a = "openai" => ch = <<>>
          /\ calc = [adapter |-> a, json_citations |-> js, channel_citations |-> ch,
                     done |-> FALSE, citations |-> <<>>]

\* invoke from the parsed reply to the ProviderResult
EmitCitations ==
    /\ ~calc.done
    /\ \E cs \in ResultCitations(calc.adapter, calc.json_citations, calc.channel_citations) :
          calc' = [calc EXCEPT !.done = TRUE, !.citations = cs]
    /\ UNCHANGED <<rvars, dvars, rlvars, exports, admission, invocation, questions>>

NextCite == EmitCitations

SpecCite == InitCite /\ [][NextCite]_vars

(***************************************************************************)
(* _calculate_backoff_with_jitter (workers/tasks.py).  Delays are in       *)
(* hundredths of a second; the jitter draw is a whole percentage of the    *)
(* base delay between -20 and +20.                                         *)
(***************************************************************************)
MaxBackoffBase == 3
MaxBackoffAttempt == 6

JitterPercent == 20
MaxDelaySeconds == 60

\* delivery_retry_backoff_base: an int setting without a lower limit
BackoffBases == 1..MaxBackoffBase

\* random.uniform(-jitter_range, jitter_range), as a percentage of base_delay
JitterDraws == (-JitterPercent)..JitterPercent

\* _calculate_backoff_with_jitter(attempt) for one setting and one draw;
\* int() of a non-negative float is its floor
calculate_backoff_with_jitter(base, attempt, draw) ==
    LET base_delay == base ^ attempt
        delay == Min(base_delay * 100 + base_delay * draw, MaxDelaySeconds * 100)
    IN  delay \div 100

InitBackoff ==
    /\ RunsOff
    /\ DeliveryOff
    /\ rlcfg = [qps |-> 1, burst |-> 1]
    /\ bucket = [exists |-> FALSE, tokens |-> 0, last_update |-> 0, expire_at |-> 0]
    /\ clock = 0
    /\ rlw = <<>>
    /\ win = [start |-> -1, count |-> 0]
    /\ exports = <<>>
    /\ admission = <<>>
    /\ invocation = <<>>
    /\ questions = <<>>
    /\ \E b \in BackoffBases : \E n \in 1..MaxBackoffAttempt :
          calc = [base |-> b, attempt |-> n, done |-> FALSE, countdown |-> 0, draw |-> 0]

\* one call of the function: the jitter is drawn inside it
Backoff ==
    /\ ~calc.done
    /\ \E draw \in JitterDraws :
          calc' = [calc EXCEPT !.done = TRUE, !.draw = draw,
                      !.countdown = calculate_backoff_with_jitter(calc.base, calc.attempt, draw)]
    /\ UNCHANGED <<rvars, dvars, rlvars, exports, admission, invocation, questions>>

NextBackoff == Backoff

SpecBackoff == InitBackoff /\ [][NextBackoff]_vars

SpecDelivery == InitDelivery /\ [][NextDelivery]_vars

SpecRL == InitRL /\ [][NextRL]_vars

\* C3: over any window of duration T >= 1/qps the number of successful
\* Acquires is at most burst + qps*T (in ticks: TicksPerInterval * count
\* <= TicksPerInterval * burst + T), for every window the observer opened.
RateLimitWindow ==
    (win.start >= 0 /\ clock - win.start >= TicksPerInterval)
        => TicksPerInterval * win.count <= TicksPerInterval * rlcfg.burst + (clock - win.start)

(***************************************************************************)
(* Properties of the run pipeline                                          *)
(***************************************************************************)

\* nothing is queued, no worker is inside a task, no request is in flight
Quiescent ==
    /\ queue = EmptyBag
    /\ \A w \in Workers : wk[w].pc = "idle"
    /\ \A a \in Apis : api[a].pc = "idle"

ResponseCount(i) ==
    Cardinality({k \in 1..Len(responses) : responses[k].run_item_id = i})

\* C1: a RunItem has exactly one Response when its status is succeeded and
\* none otherwise, whatever Start, Resume and the workers do.
OneResponsePerSucceededItem ==
    \A i \in 1..Len(run_items) :
        ResponseCount(i) = IF run_items[i].status = "succeeded" THEN 1 ELSE 0

\* C4: when the pipeline is quiescent, Run.cost_cents is the sum of the
\* cost_cents of the Responses of the run's items.
CostAtQuiescence ==
    Quiescent => \A r \in Runs : runs[r].cost_cents = SumCosts(r, run_items, responses)

\* C5: when the pipeline is quiescent, Run.status is the rollup of the
\* statuses of the run's items; in particular a run whose items have all
\* failed is completed.
StatusAtQuiescence ==
    Quiescent => \A r \in Runs : runs[r].status = RollupStatus(StatusCounts(r, run_items))

\* C6: a materialization of a run that begins after an earlier one of the
\* same run has returned leaves the RunItems as they are and returns 0.
MaterializeTwice ==
    [][\A a \in Apis :
         (api[a].pc = "start_scanned" /\ api[a].prior >= 1 /\ api'[a].pc = "idle")
            => /\ run_items' = run_items
               /\ matlog'[api[a].run] =
                     [matlog[api[a].run] EXCEPT !.done = @ + 1, !.created = 0]]_vars

\* a run that has items was materialized a second time
MaterializedAgain ==
    \E r \in Runs : matlog[r].done >= 2 /\ matlog[r].created = 0 /\ ItemsOf(r, run_items) # {}

\* C7: a run that has been materialized owns exactly one RunItem for each
\* pair of a question and one of its provider specs, whatever other runs exist.
OneItemPerUnit ==
    \A r \in Runs :
        matlog[r].done >= 1 =>
            LET units == Units(runs[r])
            IN  /\ Cardinality(ItemsOf(r, run_items)) = Len(units)
                /\ \A n \in 1..Len(units) :
                      Cardinality({i \in ItemsOf(r, run_items) :
                          run_items[i].idempotency_key = UnitKey(runs[r], units[n])}) = 1

\* the provider spec of its run that a RunItem was materialized for
SpecOfItem(row) ==
    LET run == runs[row.run_id]
    IN  run.providers[CHOOSE k \in 1..Len(run.providers) :
            UnitKey(run, [question |-> row.question_id, spec |-> k]) = row.idempotency_key]

\* C8: the provider and the model a Response was produced with are those of
\* the spec its RunItem was materialized for.
ResponseFromItemSpec ==
    \A k \in 1..Len(responses) :
        LET row == run_items[responses[k].run_item_id]
        IN  /\ responses[k].provider = SpecOfItem(row).name
            /\ responses[k].model = SpecOfItem(row).model

\* C9: fingerprints are unique among RunItems and no materialization, however
\* it overlaps with others, ends in an error.
MaterializeConcurrently ==
    /\ \A i, j \in 1..Len(run_items) :
          run_items[i].idempotency_key = run_items[j].idempotency_key => i = j
    /\ \A r \in Runs : matlog[r].errors = 0

\* C15: Resume Run enqueues one task for each RunItem of the run that is
\* failed and for no other, and its commit changes only RunItems that are
\* failed, which become pending.
ResumeFrame ==
    [][\A a \in Apis :
          /\ (api[a].pc = "idle" /\ api'[a].pc = "resume_selected")
                => queue' = queue (+) BagOfTasks({i \in 1..Len(run_items) :
                                /\ run_items[i].run_id = api'[a].run
                                /\ run_items[i].status = "failed"})
          /\ (api[a].pc = "resume_selected" /\ api'[a].pc = "idle")
                => \A i \in 1..Len(run_items) :
                      IF run_items[i].status = "failed" /\ i \in api[a].items
                      THEN run_items'[i] = [run_items[i] EXCEPT !.status = "pending"]
                      ELSE run_items'[i] = run_items[i]]_vars

\* the RunItems of a run in created_at order
RECURSIVE ItemSeqFrom(_, _)
ItemSeqFrom(r, i) ==
    IF i > Len(run_items) THEN <<>>
    ELSE (IF run_items[i].run_id = r THEN <<i>> ELSE <<>>) \o ItemSeqFrom(r, i + 1)

\* C16: when a create_export request that names a registered mapper has
\* ended, the results composed for it are one per RunItem of the run in
\* created_at order, and each RunItem of the run has one Delivery of the
\* export, enqueued, if it is succeeded and none otherwise.
ExportDeliveries ==
    \A e \in DOMAIN exports :
        (exports[e].pc = "done" /\ exports[e].mapper_name \in MapperRegistry)
            => /\ [k \in 1..Len(exports[e].results) |-> exports[e].results[k].run_item_id]
                      = ItemSeqFrom(exports[e].run_id, 1)
               /\ \A i \in ItemsOf(exports[e].run_id, run_items) :
                     LET mine == {d \in DOMAIN deliveries :
                                     /\ deliveries[d].export_id = e
                                     /\ deliveries[d].payload.query_id = i}
                     IN  /\ Cardinality(mine) =
                               IF run_items[i].status = "succeeded" THEN 1 ELSE 0
                         /\ \A d \in mine : \E t \in dtasks : t.delivery = d

(***************************************************************************)
(* Create Run admission                                                    *)
(***************************************************************************)
\* the provider a name denotes, letter case ignored, is switched on
NamesEnabledProvider(name, flags) ==
    \/ lower(name) = NameOpenai /\ flags.enable_openai
    \/ lower(name) = NameGemini /\ flags.enable_gemini
    \/ lower(name) = NamePerplexity /\ flags.enable_perplexity

\* C17: a Create Run request naming a provider that is not enabled, in any
\* letter case, ends in the admission error (HTTP 400), creates no Run row and
\* changes nothing else; a request naming only enabled providers (for an
\* existing campaign) is admitted and its Run row has status pending.
CreateRunAdmission ==
    [][admission'.requests # admission.requests =>
        LET req == admission'.last
            disabled == \E i \in DOMAIN req.names :
                           ~NamesEnabledProvider(req.names[i], admission.flags)
        IN  /\ admission'.flags = admission.flags
            /\ UNCHANGED <<run_items, responses, queue, wk, api, calls, matlog,
                           dvars, rlvars, exports, invocation, questions, calc>>
            /\ disabled => req.outcome = "HTTP 400" /\ runs' = runs
            /\ (~disabled /\ req.campaign_id \in Campaigns) =>
                  /\ req.outcome = "HTTP 201"
                  /\ Len(runs') = Len(runs) + 1
                  /\ \A k \in DOMAIN runs : runs'[k] = runs[k]
                  /\ runs'[req.run_id].status = "pending"
                  /\ runs'[req.run_id].providers = req.names
                  /\ req.run_id = Len(runs')]_vars

\* a request naming an enabled provider first and disabled "GEMINI" second was
\* rejected after an earlier request spelled "OpenAI" had been admitted
RejectedAfterAdmitted ==
    /\ admission.last.outcome = "HTTP 400"
    /\ admission.last.names = <<NameOpenai, <<"G", "E", "M", "I", "N", "I">>>>
    /\ admission.flags.enable_openai /\ ~admission.flags.enable_gemini
    /\ Len(runs) = 1
    /\ runs[1].providers = << <<"O", "p", "e", "n", "A", "I">> >>
    /\ runs[1].status = "pending"

(***************************************************************************)
(* Provider adapters                                                       *)
(***************************************************************************)
\* C18: every invocation of an adapter sends a request body; with
\* allow_sampling false (or absent) the body carries temperature 0 and top_p 1
\* whatever the caller passed, so two invocations differing only in the
\* caller's sampling values send the same body; with allow_sampling true the
\* body carries the caller's values.
DeterminismFirst ==
    invocation.invoked =>
        /\ Len(invocation.body) = 1
        /\ LET kw == invocation.kwargs
               body == invocation.body[1]
           IN  IF kw.allow_sampling.set /\ kw.allow_sampling.v
               THEN /\ kw.temperature.set => body.temperature = kw.temperature.v
                    /\ kw.top_p.set => body.top_p = kw.top_p.v
               ELSE body.temperature = 0 /\ body.top_p = 10

DistinctBatch(b) ==
    \A i, j \in DOMAIN b :
        (b[i].topic = b[j].topic /\ question_id(b[i], i) = question_id(b[j], j)) => i = j

\* C20: importing the same batch of N distinct questions twice in succession
\* reports imported = N, skipped = 0 the first time and imported = 0,
\* skipped = N the second time, and the stored Questions are the same after
\* the second import as after the first.
ImportIdempotent ==
    DistinctBatch(questions.batch) =>
        LET N == Len(questions.batch)
        IN  /\ Len(questions.reports) >= 1 =>
                  questions.reports[1] = [imported |-> N, skipped |-> 0]
            /\ Len(questions.reports) >= 2 =>
                  /\ questions.reports[2] = [imported |-> 0, skipped |-> N]
                  /\ questions.stored[2] = questions.stored[1]

(***************************************************************************)
(* Fingerprint                                                             *)
(***************************************************************************)
\* two dicts hold the same items, in whatever order, at every nesting level
RECURSIVE SameUpToKeyOrder(_, _)
SameUpToKeyOrder(d, e) ==
    /\ {d[i].k : i \in DOMAIN d} = {e[j].k : j \in DOMAIN e}
    /\ \A i \in DOMAIN d : \A j \in DOMAIN e :
          d[i].k = e[j].k =>
             /\ d[i].v.t = e[j].v.t
             /\ d[i].v.s = e[j].v.s
             /\ SameUpToKeyOrder(d[i].v.d, e[j].v.d)

\* C21: two calls of the fingerprint with the same arguments, or with
\* provider_settings that differ only in the order of their keys at any
\* nesting level, return the identical string of 64 hex digits.
FingerprintDeterminism ==
    (/\ calc.done
     /\ [calc.first EXCEPT !.provider_settings = <<>>] = [calc.second EXCEPT !.provider_settings = <<>>]
     /\ SameUpToKeyOrder(calc.first.provider_settings, calc.second.provider_settings)) =>
        /\ calc.hashes[1] = calc.hashes[2]
        /\ calc.hashes[1].length = 64

\* the nested sampling dict was given in two key orders and the top-level keys
\* in two orders as well, and both calls were made
PermutedNestedKeys ==
    /\ calc.done
    /\ calc.first.provider_settings =
          <<[k |-> "sampling", v |-> JsonDict(SamplingAB)], [k |-> "name", v |-> JsonStr(<<"openai">>)]>>
    /\ calc.second.provider_settings =
          <<[k |-> "name", v |-> JsonStr(<<"openai">>)], [k |-> "sampling", v |-> JsonDict(SamplingBA)]>>
    /\ calc.first.question_text = calc.second.question_text
    /\ calc.first.model = calc.second.model
    /\ calc.first.prompt_version = calc.second.prompt_version
    /\ calc.hashes[1] = calc.hashes[2]

\* the normalized form of an argument tuple: the fields as given, the text
\* normalized, the settings without key order
NormalizedArgs(x) ==
    <<x.provider, x.model, x.prompt_version, x.question_id, x.persona_id,
      NormalizeText(x.question_text)>>

\* C22: two argument tuples get the same fingerprint if and only if they
\* agree after normalization (text lower-cased with whitespace runs collapsed,
\* settings without key order); tuples differing in a field never share a
\* pre-image.
FingerprintSensitivity ==
    calc.done =>
        ((calc.hashes[1] = calc.hashes[2]) <=>
            (/\ NormalizedArgs(calc.first) = NormalizedArgs(calc.second)
             /\ SameUpToKeyOrder(calc.first.provider_settings, calc.second.provider_settings)))

(***************************************************************************)
(* Citations                                                               *)
(***************************************************************************)
\* the elements of a list without repetitions, each at its first position
RECURSIVE FirstOccurrences(_, _)
FirstOccurrences(xs, seen) ==
    IF xs = <<>> THEN <<>>
    ELSE IF Head(xs) \in seen THEN FirstOccurrences(Tail(xs), seen)
    ELSE <<Head(xs)>> \o FirstOccurrences(Tail(xs), seen \cup {Head(xs)})

\* C23: the citation list of a Result holds only http/https URLs, holds no
\* duplicates, and is in stable order: the citations of the JSON body first,
\* in their original order, then those of the provider's channel.
CitationsCleanAndStable ==
    calc.done =>
        /\ \A i \in DOMAIN calc.citations : calc.citations[i].scheme \in {"http", "https"}
        /\ \A i, j \in DOMAIN calc.citations : calc.citations[i] = calc.citations[j] => i = j
        /\ calc.citations =
              FirstOccurrences(validate_urls(calc.json_citations \o calc.channel_citations), {})

(***************************************************************************)
(* Delivery backoff                                                        *)
(***************************************************************************)
\* C24: every countdown the backoff function returns lies between 1 and 60
\* seconds, for every attempt index >= 1, every jitter draw within 20% and
\* every configured base.
BackoffWithinRange ==
    calc.done => calc.countdown >= 1 /\ calc.countdown <= 60

(***************************************************************************)
(* Execution worker                                                        *)
(***************************************************************************)
\* C25: when a worker takes a task that is not a retry and whose RunItem is
\* not pending (running or succeeded), the RunItem row and the Responses stay
\* as they are and no provider call follows; a succeeded unit is never set
\* to another status.
SkipWhenNotPending ==
    [][/\ calls'.exec # calls.exec =>
            \A w \in Workers :
               (wk[w].pc = "idle" /\ wk'[w].pc = "running") =>
                  LET i == wk'[w].item
                  IN  (run_items[i].status \in {"running", "succeeded"} /\ wk'[w].retries = 0) =>
                         /\ run_items'[i] = run_items[i]
                         /\ responses' = responses
       /\ \A i \in DOMAIN run_items :
             (i \in DOMAIN run_items' /\ run_items[i].status = "succeeded") =>
                run_items'[i].status = "succeeded"]_vars

\* C26: in no reachable state are two executions of the same RunItem in
\* progress at once.
AttemptsAreSerial ==
    \A w1, w2 \in Workers :
        (wk[w1].pc = "running" /\ wk[w2].pc = "running" /\ wk[w1].item = wk[w2].item) => w1 = w2

\* an attempt of worker w ends in the except branch in this step
AttemptFails(w) == wk[w].pc = "running" /\ wk'[w].pc = "idle"

\* C27: a failed attempt leaves the unit failed with last_error stored, and a
\* retry of it is scheduled if and only if the unit's attempt_count is below
\* 3, with a countdown of 2^attempt_count seconds; no chain of retries runs a
\* unit more than 3 times.
RetryWhileBelowThree ==
    [][\A w \in Workers :
          AttemptFails(w) =>
             LET i == wk[w].item
                 n == run_items'[i].attempt_count
                 retry == [item |-> i, retries |-> wk[w].retries + 1, countdown |-> 2 ^ n]
             IN  /\ run_items'[i].status = "failed"
                 /\ run_items'[i].last_error # "none"
                 /\ wk[w].retries + 1 <= MaxExecAttempts
                 /\ IF n < MaxExecAttempts
                    THEN queue' = queue (+) SetToBag({retry})
                    ELSE queue' = queue]_vars

\* errors that repeating the attempt cannot cure
NonRetriableErrors == {"Provider not enabled", "HTTP 400"}

\* C28: when the adapter lookup finds the provider disabled, or the provider
\* answers HTTP 4xx other than 429, the RunItem becomes failed and no retry
\* of it is scheduled, whatever its attempt_count.
NonRetriableIsTerminal ==
    [][\A w \in Workers :
          (AttemptFails(w) /\ run_items'[wk[w].item].last_error \in NonRetriableErrors) =>
             /\ run_items'[wk[w].item].status = "failed"
             /\ queue' = queue]_vars

\* C29: an attempt calls the adapter only together with a token it took from
\* the bucket itself; when Acquire times out the adapter is not called, no
\* Response is written, the unit is failed and the failure is retried like
\* any retriable one (while the attempt's count is below 3).
InvokeOnlyWithToken ==
    [][/\ calls'.invoke # calls.invoke =>
            /\ calls'.invoke = calls.invoke + 1
            /\ calls'.acquire = calls.acquire + 1
       /\ \A w \in Workers :
             (AttemptFails(w) /\ run_items'[wk[w].item].last_error = "Rate limit timeout"
                  /\ calls'.acquire = calls.acquire) =>
                /\ calls'.invoke = calls.invoke
                /\ responses' = responses
                /\ run_items'[wk[w].item].status = "failed"
                /\ (wk[w].attempt_count < MaxExecAttempts) =>
                      queue' = queue (+) SetToBag({[item |-> wk[w].item,
                                                    retries |-> wk[w].retries + 1,
                                                    countdown |-> 2 ^ wk[w].attempt_count]})]_vars

\* an attempt timed out waiting for a token and was put back for a retry
AcquireTimedOut ==
    /\ calls.exec > calls.acquire
    /\ \E i \in DOMAIN run_items :
          /\ run_items[i].status = "failed"
          /\ run_items[i].last_error = "Rate limit timeout"
          /\ \E t \in BagToSet(queue) : t.item = i /\ t.retries > 0

\* answers that are transient failures: network error, timeout, 429 and 5xx
TransientAnswers == {"timeout", "network", "429", "500"}

\* C30: an Invoke surfaces a failure to its caller after a transient answer
\* (network error, timeout, HTTP 429, HTTP 5xx) only when that was the third
\* HTTP attempt, every earlier attempt having been answered by a transient
\* failure too; a non-transient error is surfaced by the attempt that met it.
AdapterRetriesTransient ==
    invocation.state = "raised" =>
        /\ \A k \in 1..(invocation.attempts - 1) : invocation.answers[k] \in TransientAnswers
        /\ invocation.answers[invocation.attempts] \in TransientAnswers =>
               invocation.attempts = StopAfterAttempt
        /\ invocation.attempts <= StopAfterAttempt

\* a task for item i is queued or a worker is executing it
TaskOutstanding(i) ==
    \/ \E t \in BagToSet(queue) : t.item = i
    \/ \E w \in Workers : wk[w].pc = "running" /\ wk[w].item = i

\* succeeded, or failed with no retry outstanding
StableStatus(i) ==
    \/ run_items[i].status = "succeeded"
    \/ run_items[i].status = "failed" /\ ~TaskOutstanding(i)

\* the cap on executions of the model keeps a queued task from being taken
ExecutionsExhausted == queue # EmptyBag /\ calls.exec >= MaxExecutions

\* C31: with a fair queue and fair workers and no crash, every RunItem of a
\* started run is from some point on in a stable status: succeeded, or failed
\* with no retry outstanding.
EveryItemSettles ==
    <>[](ExecutionsExhausted \/ \A i \in DOMAIN run_items : StableStatus(i))

\* C32: a RunItem is never left in status running without an execution of it
\* in progress or a task for it in the queue: when the worker that runs it is
\* killed, the item leaves running or its task is delivered again.
RunningIsNotOrphaned ==
    \A i \in DOMAIN run_items : run_items[i].status = "running" => TaskOutstanding(i)

(***************************************************************************)
(* Properties of the token bucket                                          *)
(***************************************************************************)
\* worker w runs the script in this step
TryBy(w) == rlw[w].pc = "sampled" /\ rlw'[w].pc = "idle"

\* C33: every try refills the bucket by floor(elapsed / refill_interval)
\* tokens up to burst and stores last_update = now - (elapsed mod
\* refill_interval), so the remainder is carried over; a try that fails
\* stores the refilled state with no token taken.
RefillCarriesRemainder ==
    [][\A w \in RLWorkers :
          TryBy(w) =>
             LET now == rlw[w].now
                 st == BucketState(bucket, rlcfg, now, clock)
                 elapsed == now - st.last_update
                 refill == elapsed \div refill_interval
                 tokens == Min(rlcfg.burst, st.tokens + refill)
                 carried == now - (elapsed % refill_interval)
             IN  /\ bucket'.exists
                 /\ bucket'.last_update = carried
                 /\ bucket'.tokens = IF tokens >= 1 THEN tokens - 1 ELSE tokens]_vars

\* C34: no two Questions of the same topic carry the same external_id, also
\* when two imports of the same (topic, external_id) interleave their check
\* and their insert (stated for questions whose metadata names no external_id
\* of its own, so that the stored id is the one that is looked up).
ExternalIdUniqueInTopic ==
    (\A p \in Importers : questions.importer[p].item.metadata_external_id = <<>>) =>
        \A q1, q2 \in DOMAIN questions.rows :
            (/\ questions.rows[q1].topic_id = questions.rows[q2].topic_id
             /\ questions.rows[q1].external_id = questions.rows[q2].external_id) => q1 = q2

\* C35: Run.cost_cents keeps at least 4 fractional digits, and the total
\* stored for a run equals the exact sum of its Response costs of 4 decimals.
RunCostIsExactSum ==
    calc.stored # <<>> =>
        /\ RunCostScale >= ResponseCostScale
        /\ calc.stored[1] = SumSeq(calc.costs)

\* C36: RunItem.attempt_count never exceeds 3, whatever Start Run, Resume
\* Run, the workers and their retries do.
AttemptCountAtMostThree ==
    \A i \in DOMAIN run_items : run_items[i].attempt_count <= MaxExecAttempts

\* C37: whenever Run.status is completed, every RunItem of the run is in a
\* final state: none is pending or running, and none is failed with a retry
\* of it still queued or in progress.
CompletedMeansFinal ==
    \A r \in Runs :
        runs[r].status = "completed" =>
            \A i \in ItemsOf(r, run_items) :
                /\ run_items[i].status \notin {"pending", "running"}
                /\ run_items[i].status = "failed" => ~TaskOutstanding(i)

\* C38: every RunItem in status pending has an execution task queued or in
\* progress for it, also when a worker takes and finishes the task that
\* Resume Run sent before Resume Run commits: no item is left pending with
\* no task.
PendingHasTask ==
    \A i \in DOMAIN run_items : run_items[i].status = "pending" => TaskOutstanding(i)

\* C39: the token count in the store is always within 0..burst. A try that
\* succeeds stores min(burst, tokens + refill) - 1, which is not negative, an
\* absent (or expired) bucket counting as full; a try that fails leaves the
\* store as it is. This holds for every interleaving of the workers and for
\* timestamps that arrive out of order.
TokensWithinBurst ==
    [][/\ bucket'.exists => bucket'.tokens \in 0..rlcfg.burst
       /\ \A w \in RLWorkers :
             TryBy(w) =>
                LET now == rlw[w].now
                    absent == ~bucket.exists \/ clock >= bucket.expire_at
                    before == IF absent THEN rlcfg.burst ELSE bucket.tokens
                    elapsed == IF absent THEN 0 ELSE now - bucket.last_update
                    tokens == Min(rlcfg.burst, before + (elapsed \div refill_interval))
                IN  IF tokens >= 1
                    THEN bucket'.exists /\ bucket'.tokens = tokens - 1
                    ELSE bucket' = bucket]_vars

\* after a successful Acquire the bucket is empty and a worker is about to
\* try with a timestamp older than the stored last_update
StaleTimestampAtEmptyBucket ==
    /\ bucket.exists
    /\ bucket.tokens = 0
    /\ win.count >= 1
    /\ \E w \in RLWorkers : rlw[w].pc = "sampled" /\ rlw[w].now < bucket.last_update

====
